---- MODULE Spec2Model ----
(***************************************************************************)
(* A model of the bw-datatable core (packages/core/src/core/BWDataTable.js *)
(* with its StateManager): the table state and the operations that derive  *)
(* the view (state.rows) from the data: sort, filter, setData, reset,      *)
(* selection and pagination.                                               *)
(*                                                                         *)
(* Rows are records; a row's identity is its id (options.rowId = 'id').    *)
(* Cell values carry their JavaScript type, strings are sequences of       *)
(* one-character strings, so that String(), toLowerCase(), includes() and  *)
(* the relational operators are computed and not assumed.                  *)
(***************************************************************************)
EXTENDS Integers, Sequences, FiniteSets, TLC

(***************************************************************************)
(* Bounds of the model                                                     *)
(***************************************************************************)
MaxRows == 2        \* longest data array handed to the constructor / setData

(***************************************************************************)
(* JavaScript values and strings                                           *)
(***************************************************************************)
Null == [t |-> "null", n |-> 0, s |-> <<>>]
Undefined == [t |-> "undef", n |-> 0, s |-> <<>>]
Num(k) == [t |-> "num", n |-> k, s |-> <<>>]
Str(cs) == [t |-> "str", n |-> 0, s |-> cs]
False == [t |-> "bool", n |-> 0, s |-> <<>>]
True == [t |-> "bool", n |-> 1, s |-> <<>>]

\* the characters in use, in UTF-16 code unit order
CharOrder == <<"1", "2", "3", "A", "B", "L", "a", "b", "d", "e", "f", "i", "l", "n",
               "r", "s", "t", "u", "x">>

CharCode(c) == CHOOSE i \in 1..Len(CharOrder) : CharOrder[i] = c

\* String.prototype.toLowerCase, per character
LowerChar(c) == IF c = "A" THEN "a" ELSE IF c = "B" THEN "b" ELSE IF c = "L" THEN "l" ELSE c

ToLowerCase(cs) == [i \in 1..Len(cs) |-> LowerChar(cs[i])]

DigitChars == <<"1", "2", "3">>

\* String(value)
String(v) ==
  CASE v.t = "null" -> <<"n", "u", "l", "l">>
    [] v.t = "undef" -> <<"u", "n", "d", "e", "f", "i", "n", "e", "d">>
    [] v.t = "num" -> <<DigitChars[v.n]>>
    [] v.t = "bool" -> IF v.n = 1 THEN <<"t", "r", "u", "e">> ELSE <<"f", "a", "l", "s", "e">>
    [] OTHER -> v.s

\* String.prototype.includes
Includes(hay, needle) ==
  \E i \in 0..(Len(hay) - Len(needle)) : SubSeq(hay, i + 1, i + Len(needle)) = needle

\* a < b on two strings: the first differing code unit decides, a proper prefix is smaller
StrLess(a, b) ==
  \E k \in 1..Len(b) :
     /\ \A j \in 1..(k - 1) : j <= Len(a) /\ a[j] = b[j]
     /\ (k > Len(a) \/ (k <= Len(a) /\ CharCode(a[k]) < CharCode(b[k])))

\* aVal < bVal for two non-null values of one type
JsLess(a, b) ==
  IF a.t = "num" /\ b.t = "num" THEN a.n < b.n
  ELSE IF a.t = "str" /\ b.t = "str" THEN StrLess(a.s, b.s)
  ELSE FALSE

\* aVal == null
IsNullish(v) == v.t \in {"null", "undef"}

(***************************************************************************)
(* Configuration: options.columns and the inputs the operations draw from  *)
(***************************************************************************)
\* options.columns = [{id: 'n', type: 'number'}, {id: 's'}]
Columns == <<"n", "s">>

ColumnIds == {Columns[i] : i \in 1..Len(Columns)}

UnknownColumn == "zz"

RowIds == <<"r1", "r2", "r3", "r4", "r5">>

Row(i, nv, sv) == [id |-> RowIds[i], n |-> nv, s |-> sv]

\* two host arrays; the data handed over is a prefix of one of them
BaseA == << Row(1, Null, Str(<<"b">>)), Row(2, Num(1), Str(<<"A", "b">>)),
            Row(3, Num(2), Null), Row(4, Num(1), Str(<<"a">>)),
            Row(5, Undefined, Str(<<"b">>)) >>

BaseB == << Row(1, Num(2), Str(<<"a">>)), Row(2, Num(2), Undefined),
            Row(3, Num(3), Str(<<"B">>)), Row(4, Null, Str(<<"a">>)),
            Row(5, Num(1), Null) >>

Datasets == {SubSeq(b, 1, k) : b \in {BaseA, BaseB}, k \in 0..MaxRows}

\* the values filter() is called with, per target; the empty string clears.
\* A filter on an id that matches no column is stored and skipped when the rows
\* are filtered; it is not among the inputs.
FilterTargets == ColumnIds \cup {"global"}

Terms(target) ==
  CASE target = "global" -> {<<>>, <<"L">>}
    [] target = "n" -> {<<>>, <<"2">>}
    [] OTHER -> {<<>>, <<"A">>}

NoFilters == [c \in ColumnIds \cup {UnknownColumn} |-> <<>>]

Dirs == {"asc", "desc", "none"}

\* options.pageSize and the sizes setPageSize() is called with
PageSizes == {1, 2}

VARIABLES data, rows, sort, filters, globalFilter, selected, selectionMode,
          page, pageSize, totalRows, lastOp

\* the EventBus: #listeners, #interceptors, the keys of the #interceptors
\* Map, and what the last emit() did
VARIABLES listeners, interceptors, lastEmit, interceptorKeys

\* inline editing and cell focus: state.editingCell, the [data-edit-input]
\* elements of the container, the events the last operation emitted,
\* state.focusedCell and the editing options
VARIABLES editingCell, inputs, events, focusedCell, editCfg

\* the PluginSystem registry (#plugins, a Map in insertion order) and what
\* the last operation called, emitted and regenerated, in order
VARIABLES plugins, done

\* the History plugin: undoStack, redoStack, pendingSnapshot
VARIABLES undoStack, redoStack, pendingSnapshot

\* the virtual viewport: the inputs of computeRange and the range rendered
VARIABLE range

\* the remove functions intercept() handed out and the caller kept, and
\* the calls the listeners of table:ready and table:destroyed have received
\* from this table
VARIABLES removers, heard

\* the UrlState plugin: the table parameters of window.location.search and
\* the pending debounce timer, named after what scheduled it last
VARIABLES url, syncTimer

\* the edit inputs whose blur handler has a save pending, and the edit
\* input that has the focus
VARIABLES blurTimers, inputFocus

busVars == <<listeners, interceptors, lastEmit, interceptorKeys>>

auxVars == <<removers, heard, url, syncTimer, blurTimers, inputFocus>>

histVars == <<undoStack, redoStack, pendingSnapshot>>

extVars == <<plugins, done, range, histVars, auxVars>>

editVars == <<editingCell, inputs, events, focusedCell, editCfg>>

vars == <<data, rows, sort, filters, globalFilter, selected, selectionMode,
          page, pageSize, totalRows, lastOp, busVars, editVars, extVars>>

Op(name, a, b, threw) == [op |-> name, a |-> a, b |-> b, threw |-> threw]

\* events of a generic bus, and the events the edit operations emit
BusEvents == {"row:click", "cell:click"}

EditEvents == {"edit:start", "edit:before", "edit:end", "edit:cancel"}

\* the events of one render() in the order render() emits them
RenderEvents ==
  <<"render:before", "render:header", "render:body", "render:footer", "render:after">>

AllEvents ==
  BusEvents \cup EditEvents \cup {RenderEvents[i] : i \in 1..Len(RenderEvents)}
    \cup {"state:change", "export:before", "export:after", "table:ready", "table:destroyed",
          "sort:before"}

\* no emit() since the last on() or intercept()
NoEmit == [event |-> "-", data |-> Undefined, result |-> Undefined, calls |-> <<>>]

\* a fresh EventBus: no listener, no interceptor
BusIdle ==
  /\ listeners = [e \in AllEvents |-> <<>>]
  /\ interceptors = [e \in AllEvents |-> <<>>]
  /\ interceptorKeys = {}
  /\ lastEmit = NoEmit

\* state.editingCell = null
NoEdit == [rowId |-> "-", columnId |-> "-", originalValue |-> Undefined]

\* state.focusedCell undefined or null
NoFocus == [rowId |-> "-", columnId |-> "-"]

\* the editing options of DEFAULT_OPTIONS, columns without editable flag,
\* validator or type other than n: 'number'
DefaultEditCfg ==
  [editable |-> FALSE, hasAllowlist |-> FALSE, editableColumns |-> {},
   columnEditable |-> [c \in ColumnIds |-> "unset"],
   validators |-> {},
   types |-> [c \in ColumnIds |-> IF c = "n" THEN "number" ELSE "text"]]

\* no UrlState parameter in the address
NoUrl == [page |-> 0, sort |-> <<>>, search |-> <<>>]

\* no plugin registered, no History plugin state, no virtual viewport, no
\* remove function kept, no UrlState plugin, no timer pending
ExtIdle ==
  /\ removers = {}
  /\ heard = <<>>
  /\ url = NoUrl
  /\ syncTimer = "none"
  /\ blurTimers = {}
  /\ inputFocus = NoFocus
  /\ plugins = <<>>
  /\ done = <<>>
  /\ undoStack = <<>>
  /\ redoStack = <<>>
  /\ pendingSnapshot = Null
  /\ range = [scrollTop |-> 0, viewportHeight |-> 1, rowHeight |-> 1, viewLength |-> 0,
              start |-> 0, end |-> 0]

\* no edit, no focus, nothing emitted
EditIdle ==
  /\ editingCell = NoEdit
  /\ inputs = {}
  /\ events = <<>>
  /\ focusedCell = NoFocus
  /\ editCfg = DefaultEditCfg

(***************************************************************************)
(* Helpers of BWDataTable                                                  *)
(***************************************************************************)
\* #getRowId with options.rowId = 'id'
GetRowId(row) == row.id

\* #getCellValue for a column of options.columns (no valueGetter, no field)
GetCellValue(row, columnId) == IF columnId = "n" THEN row.n ELSE row.s

\* state.columns.find((c) => c.id === columnId) !== undefined
ColumnFound(columnId) == columnId \in ColumnIds

\* Compare with the null rule negated by the direction like the rest
CompareNullByDir(a, b, columnId, dir) ==
  LET aVal == GetCellValue(a, columnId)
      bVal == GetCellValue(b, columnId)
      cmp == IF IsNullish(aVal) /\ IsNullish(bVal) THEN 0
             ELSE IF IsNullish(aVal) THEN 1
             ELSE IF IsNullish(bVal) THEN -1
             ELSE IF JsLess(aVal, bVal) THEN -1 ELSE IF JsLess(bVal, aVal) THEN 1 ELSE 0
  IN IF dir = "desc" THEN -cmp ELSE cmp

\* Compare that never negates for 'desc'
CompareIgnoreDir(a, b, columnId, dir) ==
  LET aVal == GetCellValue(a, columnId)
      bVal == GetCellValue(b, columnId)
  IN IF IsNullish(aVal) /\ IsNullish(bVal) THEN 0
     ELSE IF IsNullish(aVal) THEN 1
     ELSE IF IsNullish(bVal) THEN -1
     ELSE IF JsLess(aVal, bVal) THEN -1 ELSE IF JsLess(bVal, aVal) THEN 1 ELSE 0

\* the comparator of sort() and of filter()'s re-sort
Compare(a, b, columnId, dir) ==
  LET aVal == GetCellValue(a, columnId)
      bVal == GetCellValue(b, columnId)
      cmp == IF JsLess(aVal, bVal) THEN -1 ELSE IF JsLess(bVal, aVal) THEN 1 ELSE 0
  IN IF IsNullish(aVal) /\ IsNullish(bVal) THEN 0
     ELSE IF IsNullish(aVal) THEN 1
     ELSE IF IsNullish(bVal) THEN -1
     ELSE IF dir = "desc" THEN -cmp ELSE cmp

\* an insertion that repeats the element at the insertion point
InsertStableDup(s, x, columnId, dir) ==
  LET k == Cardinality({i \in 1..Len(s) : Compare(s[i], x, columnId, dir) <= 0})
  IN SubSeq(s, 1, k) \o <<x>> \o SubSeq(s, IF k > 0 THEN k ELSE 1, Len(s))

\* Array.prototype.sort is stable: x goes behind every element that does not
\* compare greater than it
InsertStable(s, x, columnId, dir) ==
  LET k == Cardinality({i \in 1..Len(s) : Compare(s[i], x, columnId, dir) <= 0})
  IN SubSeq(s, 1, k) \o <<x>> \o SubSeq(s, k + 1, Len(s))

RECURSIVE SortRows(_, _, _)
SortRows(s, columnId, dir) ==
  IF s = <<>> THEN <<>>
  ELSE InsertStable(SortRows(SubSeq(s, 1, Len(s) - 1), columnId, dir), s[Len(s)], columnId, dir)

\* rows.sort(...) calls the comparator once the array has two elements, and the
\* comparator reads column.valueGetter of an undefined column: a TypeError
SortThrows(s, columnId) == Len(s) >= 2 /\ ~ColumnFound(columnId)

\* the global filter of filter(): some column's stringified value contains the term
GlobalMatch(row, term) ==
  \E i \in 1..Len(Columns) :
     Includes(ToLowerCase(String(GetCellValue(row, Columns[i]))), ToLowerCase(term))

ApplyGlobal(s, gf) ==
  IF gf # <<>> THEN SelectSeq(s, LAMBDA row : GlobalMatch(row, gf)) ELSE s

ColumnMatch(row, colId, filterVal) ==
  Includes(ToLowerCase(String(GetCellValue(row, colId))), ToLowerCase(filterVal))

\* the loop over Object.entries(filters): unknown columns are skipped
RECURSIVE ApplyColumnFilters(_, _, _)
ApplyColumnFilters(s, fs, todo) ==
  IF todo = {} THEN s
  ELSE LET colId == CHOOSE c \in todo : TRUE
           kept == IF ~ColumnFound(colId) THEN s
                   ELSE SelectSeq(s, LAMBDA row : ColumnMatch(row, colId, fs[colId]))
       IN ApplyColumnFilters(kept, fs, todo \ {colId})

FilterKeys(fs) == {c \in DOMAIN fs : fs[c] # <<>>}

FilterRows(d, gf, fs) == ApplyColumnFilters(ApplyGlobal(d, gf), fs, FilterKeys(fs))

\* a two-state toggle: ascending goes straight back to unsorted
NewDirTwoState(curSort, columnId, dir) ==
  LET found == curSort # <<>> /\ curSort[1].column = columnId
  IN IF dir = "none" THEN IF ~found THEN "asc" ELSE "none" ELSE dir

\* the direction sort() settles on: an omitted direction toggles
NewDir(curSort, columnId, dir) ==
  LET found == curSort # <<>> /\ curSort[1].column = columnId
  IN IF dir = "none"
     THEN IF ~found THEN "asc" ELSE IF curSort[1].dir = "asc" THEN "desc" ELSE "none"
     ELSE dir

\* the rows of the current page, as #renderBody and #handleSelectAll slice them
VisibleRows == SubSeq(rows, page * pageSize + 1,
                      IF page * pageSize + pageSize < Len(rows)
                      THEN page * pageSize + pageSize ELSE Len(rows))

Ids(s) == {GetRowId(s[i]) : i \in 1..Len(s)}

(***************************************************************************)
(* Initial state: the constructor and #init                                *)
(***************************************************************************)
Init ==
  /\ data \in Datasets
  /\ rows = data
  /\ sort = <<>>
  /\ filters = NoFilters
  /\ globalFilter = <<>>
  /\ selected = {}
  /\ selectionMode \in {"single", "multi", "none"}
  /\ page = 0
  /\ pageSize \in PageSizes
  /\ totalRows = Len(data)
  /\ lastOp = Op("init", "-", "-", FALSE)
  /\ BusIdle
  /\ EditIdle
  /\ ExtIdle

(***************************************************************************)
(* EventBus (core/StateManager.js, class EventBus)                         *)
(*                                                                         *)
(* #listeners and #interceptors map an event to a Set of callbacks; a Set  *)
(* iterates in insertion order and holds a callback once, so it is a       *)
(* sequence without repetition here.                                       *)
(***************************************************************************)
MaxSubs == 3        \* most callbacks registered on the bus at one time

\* the callbacks a host registers, named by what they return
Callbacks == {"pass", "veto", "setA", "setNull"}

\* the interceptors of sort:before, one of which returns
\* {columnId: 's', dir: 'desc'}
SortCallbacks == {"pass", "veto", "sortBySDesc"}

\* the callbacks registered with on(); emit() does not look at what they return
ListenerCallbacks == {"pass", "veto"}

\* the value callback cb returns when it is called with data d
Returns(cb, d) ==
  CASE cb = "veto" -> False
    [] cb = "setA" -> Str(<<"a">>)
    [] cb = "setNull" -> Null
    [] cb = "sortBySDesc" -> [t |-> "obj", n |-> 0, s |-> <<"s", "desc">>]
    [] OTHER -> Undefined

\* the data emit() is called with
Payloads == {Undefined, Num(1)}

Has(s, x) == \E i \in 1..Len(s) : s[i] = x

\* Set.prototype.add that stores a callback a second time
SetAddDup(s, x) == Append(s, x)

\* Set.prototype.add
SetAdd(s, x) == IF Has(s, x) THEN s ELSE Append(s, x)

\* Set.prototype.delete
SetDelete(s, x) == SelectSeq(s, LAMBDA y : y # x)

TotalSubs ==
  LET RECURSIVE Sum(_)
      Sum(es) == IF es = {} THEN 0
                 ELSE LET e == CHOOSE x \in es : TRUE
                      IN Len(listeners[e]) + Len(interceptors[e]) + Sum(es \ {e})
  IN Sum(AllEvents)

\* on(event, callback)
On(event, callback) ==
  /\ Has(listeners[event], callback) \/ TotalSubs < MaxSubs
  /\ listeners' = [listeners EXCEPT ![event] = SetAdd(@, callback)]
  /\ lastEmit' = NoEmit
  /\ lastOp' = Op("on", event, callback, FALSE)
  /\ UNCHANGED <<interceptors, interceptorKeys>>

\* off() that deletes nothing
OffKeeping(event, callback) ==
  /\ listeners' = listeners
  /\ lastOp' = Op("off", event, callback, FALSE)
  /\ UNCHANGED <<interceptors, interceptorKeys, lastEmit>>

\* off(event, callback)
Off(event, callback) ==
  /\ listeners' = [listeners EXCEPT ![event] = SetDelete(@, callback)]
  /\ lastOp' = Op("off", event, callback, FALSE)
  /\ UNCHANGED <<interceptors, interceptorKeys, lastEmit>>

\* the function on(event, callback) returned: () => this.off(event, callback)
Unsubscribe(event, callback) == Off(event, callback)

\* intercept(event, callback)
Intercept(event, callback) ==
  /\ Has(interceptors[event], callback) \/ TotalSubs < MaxSubs
  /\ interceptors' = [interceptors EXCEPT ![event] = SetAdd(@, callback)]
  /\ interceptorKeys' = interceptorKeys \cup {event}
  /\ lastEmit' = NoEmit
  /\ lastOp' = Op("intercept", event, callback, FALSE)
  /\ UNCHANGED listeners

\* clear()
Clear ==
  /\ listeners' = [e \in AllEvents |-> <<>>]
  /\ interceptors' = [e \in AllEvents |-> <<>>]
  /\ interceptorKeys' = {}
  /\ lastOp' = Op("clear", "-", "-", FALSE)
  /\ UNCHANGED lastEmit

Call(kind, cb, d) == [kind |-> kind, cb |-> cb, data |-> d]

\* the interceptor loop of emit() going on after an interceptor returned false
RECURSIVE RunInterceptorsNoCancel(_, _, _)
RunInterceptorsNoCancel(todo, d, log) ==
  IF todo = <<>> THEN [cancelled |-> FALSE, data |-> d, calls |-> log]
  ELSE LET result == Returns(Head(todo), d)
           log2 == Append(log, Call("interceptor", Head(todo), d))
       IN RunInterceptorsNoCancel(Tail(todo),
                                  IF result # Undefined /\ result # False THEN result ELSE d, log2)

\* the interceptor loop of emit() taking null for undefined
RECURSIVE RunInterceptorsNullPasses(_, _, _)
RunInterceptorsNullPasses(todo, d, log) ==
  IF todo = <<>> THEN [cancelled |-> FALSE, data |-> d, calls |-> log]
  ELSE LET result == Returns(Head(todo), d)
           log2 == Append(log, Call("interceptor", Head(todo), d))
       IN IF result = False THEN [cancelled |-> TRUE, data |-> d, calls |-> log2]
          ELSE RunInterceptorsNullPasses(Tail(todo),
                                         IF ~IsNullish(result) THEN result ELSE d, log2)

\* emit(), step 1: the interceptors in Set order; false cancels, any other
\* value than undefined becomes the data
RECURSIVE RunInterceptors(_, _, _)
RunInterceptors(todo, d, log) ==
  IF todo = <<>> THEN [cancelled |-> FALSE, data |-> d, calls |-> log]
  ELSE LET result == Returns(Head(todo), d)
           log2 == Append(log, Call("interceptor", Head(todo), d))
       IN IF result = False THEN [cancelled |-> TRUE, data |-> d, calls |-> log2]
          ELSE RunInterceptors(Tail(todo), IF result # Undefined THEN result ELSE d, log2)

\* emit(), step 2: every listener in Set order with the data
NotifyListeners(cbs, d) == [i \in 1..Len(cbs) |-> Call("listener", cbs[i], d)]

\* emit(event, data): its return value and the calls it made
EmitOutcome(event, d) ==
  LET r == RunInterceptors(interceptors[event], d, <<>>)
  IN IF r.cancelled THEN [result |-> False, calls |-> r.calls]
     ELSE [result |-> r.data, calls |-> r.calls \o NotifyListeners(listeners[event], r.data)]

Emit(event, d) ==
  /\ lastEmit' = [event |-> event, data |-> d,
                  result |-> EmitOutcome(event, d).result,
                  calls |-> EmitOutcome(event, d).calls]
  /\ lastOp' = Op("emit", event, "-", FALSE)
  /\ UNCHANGED <<listeners, interceptors, interceptorKeys>>

tableVars == <<data, rows, sort, filters, globalFilter, selected, selectionMode,
               page, pageSize, totalRows>>

\* a bus of its own: new EventBus()
InitBus ==
  /\ data = <<>>
  /\ rows = <<>>
  /\ sort = <<>>
  /\ filters = NoFilters
  /\ globalFilter = <<>>
  /\ selected = {}
  /\ selectionMode = "multi"
  /\ page = 0
  /\ pageSize = 2
  /\ totalRows = 0
  /\ lastOp = Op("init", "-", "-", FALSE)
  /\ BusIdle
  /\ EditIdle
  /\ ExtIdle

\* the bus operations leave the table and the edit state alone
NoTableNoEdit == UNCHANGED <<tableVars, editVars, extVars>>

NextBus ==
  \/ \E e \in BusEvents, cb \in ListenerCallbacks : On(e, cb) /\ NoTableNoEdit
  \/ \E e \in BusEvents, cb \in ListenerCallbacks : Off(e, cb) /\ NoTableNoEdit
  \/ \E e \in BusEvents, cb \in ListenerCallbacks : Unsubscribe(e, cb) /\ NoTableNoEdit
  \/ \E e \in BusEvents, cb \in Callbacks : Intercept(e, cb) /\ NoTableNoEdit
  \/ Clear /\ NoTableNoEdit
  \/ \E e \in BusEvents, d \in Payloads : Emit(e, d) /\ NoTableNoEdit

SpecBus == InitBus /\ [][NextBus]_vars

(***************************************************************************)
(* Operations of the table                                                 *)
(***************************************************************************)
\* the data sort() hands to emit('sort:before'): {columnId, dir}
SortData(columnId, dir) == [t |-> "obj", n |-> 0, s |-> <<columnId, dir>>]

\* emit('sort:before', {columnId, dir}) as sort() calls it: its return value
SortBefore(columnId, dir) == EmitOutcome("sort:before", SortData(columnId, dir)).result

\* sort() that also resets the selection, as reset() does
SortClearingSelection(columnId, dir) ==
  LET d == NewDir(sort, columnId, dir)
      newSort == IF d # "none" THEN <<[column |-> columnId, dir |-> d]>> ELSE <<>>
  IN IF SortBefore(columnId, d) = False
     THEN /\ lastOp' = Op("sort", columnId, dir, FALSE)
          /\ UNCHANGED <<data, rows, sort, filters, globalFilter, selected,
                         selectionMode, page, pageSize, totalRows>>
     ELSE IF newSort # <<>> /\ SortThrows(data, columnId)
     THEN /\ lastOp' = Op("sort", columnId, dir, TRUE)
          /\ UNCHANGED <<data, rows, sort, filters, globalFilter, selected,
                         selectionMode, page, pageSize, totalRows>>
     ELSE /\ sort' = newSort
          /\ rows' = IF newSort # <<>> THEN SortRows(data, columnId, d) ELSE data
          /\ page' = 0
          /\ selected' = {}
          /\ lastOp' = Op("sort", columnId, dir, FALSE)
          /\ UNCHANGED <<data, filters, globalFilter, selectionMode,
                         pageSize, totalRows>>

\* sort(columnId, dir): the sort is given up when emit('sort:before')
\* returns false; any other return value of the emit is not looked at
Sort(columnId, dir) ==
  LET d == NewDir(sort, columnId, dir)
      newSort == IF d # "none" THEN <<[column |-> columnId, dir |-> d]>> ELSE <<>>
  IN IF SortBefore(columnId, d) = False
     THEN /\ lastOp' = Op("sort", columnId, dir, FALSE)
          /\ UNCHANGED <<data, rows, sort, filters, globalFilter, selected,
                         selectionMode, page, pageSize, totalRows>>
     ELSE IF newSort # <<>> /\ SortThrows(data, columnId)
     THEN /\ lastOp' = Op("sort", columnId, dir, TRUE)
          /\ UNCHANGED <<data, rows, sort, filters, globalFilter, selected,
                         selectionMode, page, pageSize, totalRows>>
     ELSE /\ sort' = newSort
          /\ rows' = IF newSort # <<>> THEN SortRows(data, columnId, d) ELSE data
          /\ page' = 0
          /\ lastOp' = Op("sort", columnId, dir, FALSE)
          /\ UNCHANGED <<data, filters, globalFilter, selected, selectionMode,
                         pageSize, totalRows>>

\* filter(columnId, value)
Filter(columnId, value) ==
  LET newFilters == IF columnId = "global" THEN filters
                    ELSE [filters EXCEPT ![columnId] = value]
      newGlobal == IF columnId = "global" THEN value ELSE globalFilter
      kept == FilterRows(data, newGlobal, newFilters)
  IN IF sort # <<>> /\ SortThrows(kept, sort[1].column)
     THEN /\ lastOp' = Op("filter", "-", "-", TRUE)
          /\ UNCHANGED <<data, rows, sort, filters, globalFilter, selected,
                         selectionMode, page, pageSize, totalRows>>
     ELSE /\ filters' = newFilters
          /\ globalFilter' = newGlobal
          /\ rows' = IF sort # <<>> THEN SortRows(kept, sort[1].column, sort[1].dir) ELSE kept
          /\ page' = 0
          /\ totalRows' = Len(rows')
          /\ lastOp' = Op("filter", "-", "-", FALSE)
          /\ UNCHANGED <<data, sort, selected, selectionMode, pageSize>>

\* setData() that keeps the sort spec of the old data
SetDataKeepingSort(d) ==
  /\ data' = d
  /\ rows' = d
  /\ totalRows' = Len(d)
  /\ page' = 0
  /\ selected' = {}
  /\ filters' = NoFilters
  /\ globalFilter' = <<>>
  /\ lastOp' = Op("setData", "-", "-", FALSE)
  /\ UNCHANGED <<sort, selectionMode, pageSize>>

\* setData(data)
SetData(d) ==
  /\ data' = d
  /\ rows' = d
  /\ totalRows' = Len(d)
  /\ page' = 0
  /\ selected' = {}
  /\ sort' = <<>>
  /\ filters' = NoFilters
  /\ globalFilter' = <<>>
  /\ lastOp' = Op("setData", "-", "-", FALSE)
  /\ UNCHANGED <<selectionMode, pageSize>>

\* reset()
Reset ==
  /\ rows' = data
  /\ sort' = <<>>
  /\ filters' = NoFilters
  /\ globalFilter' = <<>>
  /\ selected' = {}
  /\ page' = 0
  /\ totalRows' = Len(data)
  /\ lastOp' = Op("reset", "-", "-", FALSE)
  /\ UNCHANGED <<data, selectionMode, pageSize>>

\* select(ids)
Select(ids) ==
  /\ selected' = ids
  /\ lastOp' = Op("select", "-", "-", FALSE)
  /\ UNCHANGED <<data, rows, sort, filters, globalFilter, selectionMode,
                 page, pageSize, totalRows>>

\* clearSelection()
ClearSelection ==
  /\ selected' = {}
  /\ lastOp' = Op("clearSelection", "-", "-", FALSE)
  /\ UNCHANGED <<data, rows, sort, filters, globalFilter, selectionMode,
                 page, pageSize, totalRows>>

\* #handleSelection(rowId): a click on the checkbox of a rendered row, or
\* Space on a focused cell of a rendered row
HandleSelection(rowId) ==
  /\ rowId \in Ids(VisibleRows)
  /\ selected' = IF selectionMode = "single"
                 THEN IF rowId \in selected THEN {} ELSE {rowId}
                 ELSE IF selectionMode = "multi"
                 THEN IF rowId \in selected THEN selected \ {rowId}
                      ELSE selected \cup {rowId}
                 ELSE selected
  /\ lastOp' = Op("toggleRow", "-", "-", FALSE)
  /\ UNCHANGED <<data, rows, sort, filters, globalFilter, selectionMode,
                 page, pageSize, totalRows>>

\* #handleSelectAll(checked): the header checkbox, rendered unless the mode is 'none'
HandleSelectAll(checked) ==
  /\ selectionMode # "none"
  /\ selected' = IF checked THEN Ids(VisibleRows) ELSE {}
  /\ lastOp' = Op("selectAll", "-", "-", FALSE)
  /\ UNCHANGED <<data, rows, sort, filters, globalFilter, selectionMode,
                 page, pageSize, totalRows>>

Max(a, b) == IF a > b THEN a ELSE b

Min(a, b) == IF a < b THEN a ELSE b

\* Math.ceil(a / b) for a >= 0, b > 0
CeilDiv(a, b) == (a + b - 1) \div b

\* goToPage(page); nothing happens when the clamped page is the current one
GoToPage(p) ==
  LET totalPages == CeilDiv(totalRows, pageSize)
      clamped == Max(0, Min(p, totalPages - 1))
  IN /\ clamped # page
     /\ page' = clamped
     /\ lastOp' = Op("goToPage", "-", "-", FALSE)
     /\ UNCHANGED <<data, rows, sort, filters, globalFilter, selected,
                    selectionMode, pageSize, totalRows>>

\* setPageSize(size)
SetPageSize(size) ==
  /\ pageSize' = size
  /\ page' = 0
  /\ lastOp' = Op("setPageSize", "-", "-", FALSE)
  /\ UNCHANGED <<data, rows, sort, filters, globalFilter, selected,
                 selectionMode, totalRows>>

\* ids a host passes to select(): ids of the base arrays
SelectableIds == {RowIds[i] : i \in 1..MaxRows}

\* the table operations leave the bus registrations and the edit state alone
NoBusNoEdit == UNCHANGED <<busVars, editVars, extVars>>

Next ==
  \/ \E c \in ColumnIds \cup {UnknownColumn}, dir \in Dirs : Sort(c, dir) /\ NoBusNoEdit
  \/ \E c \in FilterTargets : \E v \in Terms(c) : Filter(c, v) /\ NoBusNoEdit
  \/ \E d \in Datasets : SetData(d) /\ NoBusNoEdit
  \/ Reset /\ NoBusNoEdit
  \/ \E ids \in SUBSET SelectableIds : Select(ids) /\ NoBusNoEdit
  \/ ClearSelection /\ NoBusNoEdit
  \/ \E id \in SelectableIds : HandleSelection(id) /\ NoBusNoEdit
  \/ \E checked \in BOOLEAN : HandleSelectAll(checked) /\ NoBusNoEdit
  \/ \E p \in 0..MaxRows : GoToPage(p) /\ NoBusNoEdit
  \/ \E size \in PageSizes : SetPageSize(size) /\ NoBusNoEdit

Spec == Init /\ [][Next]_vars

(***************************************************************************)
(* Inline editing and cell focus (core/BWDataTable.js)                     *)
(*                                                                         *)
(* inputs is the set of [data-edit-input] elements that are attached to    *)
(* the container, one per cell at most; render() rebuilds the body and     *)
(* leaves none.  events lists the edit events the last operation emitted.  *)
(***************************************************************************)
\* #isColumnEditable(column)
IsColumnEditable(columnId) ==
  IF editCfg.columnEditable[columnId] = "false" THEN FALSE
  ELSE IF editCfg.columnEditable[columnId] = "true" THEN TRUE
  ELSE IF editCfg.hasAllowlist THEN columnId \in editCfg.editableColumns
  ELSE editCfg.editable

\* container.querySelector('[data-row-id=rowId] [data-cell=columnId]') finds a cell
CellRendered(rowId, columnId) == rowId \in Ids(VisibleRows) /\ columnId \in ColumnIds

RowIndex(s, rowId) == CHOOSE i \in 1..Len(s) : GetRowId(s[i]) = rowId

ColIndex(columnId) == CHOOSE i \in 1..Len(Columns) : Columns[i] = columnId

\* the value of the cell of row rowId in the row array s
CellValue(s, rowId, columnId) == GetCellValue(s[RowIndex(s, rowId)], columnId)

\* Boolean(value)
ToBoolean(v) ==
  CASE v.t = "num" -> IF v.n # 0 THEN True ELSE False
    [] v.t = "str" -> IF v.s # <<>> THEN True ELSE False
    [] v.t = "bool" -> v
    [] OTHER -> False

\* the string is a valid floating-point number for <input type=number>
IsNumeric(cs) == Len(cs) = 1 /\ Has(DigitChars, cs[1])

\* Number(input.value) of a number input holding one digit
ToNumber(cs) == Num(CHOOSE k \in 1..Len(DigitChars) : DigitChars[k] = cs[1])

\* #renderEditCell: the input element made for a cell holding value
NewInput(rowId, columnId, value) ==
  LET type == editCfg.types[columnId]
  IN IF type = "number"
     THEN [rowId |-> rowId, columnId |-> columnId, type |-> "number",
           value |-> IF IsNullish(value) \/ ~IsNumeric(String(value)) THEN Str(<<>>)
                     ELSE Str(String(value))]
     ELSE IF type = "boolean"
     THEN [rowId |-> rowId, columnId |-> columnId, type |-> "checkbox",
           value |-> ToBoolean(value)]
     ELSE [rowId |-> rowId, columnId |-> columnId, type |-> "text",
           value |-> IF IsNullish(value) THEN Str(<<>>) ELSE Str(String(value))]

\* #renderEditCell: cell.innerHTML = ''; cell.appendChild(input)
RenderEditCell(ins, rowId, columnId, value) ==
  {i \in ins : ~(i.rowId = rowId /\ i.columnId = columnId)}
    \cup {NewInput(rowId, columnId, value)}

\* what the user can put into an input of the type
Typed(type) ==
  CASE type = "number" -> {Str(<<>>), Str(<<"2">>)}
    [] type = "checkbox" -> {True, False}
    [] OTHER -> {Str(<<"x">>)}

\* the position of an input in document order
DocPos(i) == (RowIndex(VisibleRows, i.rowId) - 1) * Len(Columns) + ColIndex(i.columnId)

\* container.querySelector('[data-edit-input]'): the first one in document order
FirstInput(ins) == CHOOSE i \in ins : \A o \in ins : DocPos(i) <= DocPos(o)

\* #saveEdit: the new value read from the input
InputValue(i) ==
  IF i.type = "checkbox" THEN i.value
  ELSE IF i.type = "number"
       THEN IF i.value.s = <<>> THEN Null ELSE ToNumber(i.value.s)
       ELSE i.value

\* a validator that accepts everything
ValidatorAcceptsAll(v) == TRUE

\* column.validator of the columns that have one: (v) => v !== null && v !== ''
Validator(v) == v # Null /\ v # Str(<<>>)

SetCell(row, columnId, value) ==
  IF columnId = "n" THEN [row EXCEPT !.n = value] ELSE [row EXCEPT !.s = value]

\* #updateCellValue on one of the two row arrays
UpdateCellValue(s, rowId, columnId, value) ==
  [i \in 1..Len(s) |-> IF GetRowId(s[i]) = rowId THEN SetCell(s[i], columnId, value)
                       ELSE s[i]]

\* an operation part that returned without doing anything
KeptOutcome ==
  [editingCell |-> editingCell, data |-> data, rows |-> rows, inputs |-> inputs,
   events |-> <<>>, rendered |-> FALSE]

\* #cancelEdit() that emits edit:end
CancelOutcomeAsEnd ==
  IF editingCell = NoEdit THEN KeptOutcome
  ELSE [editingCell |-> NoEdit, data |-> data, rows |-> rows, inputs |-> {},
        events |-> <<"edit:end">>, rendered |-> TRUE]

\* #cancelEdit()
CancelOutcome ==
  IF editingCell = NoEdit THEN KeptOutcome
  ELSE [editingCell |-> NoEdit, data |-> data, rows |-> rows, inputs |-> {},
        events |-> <<"edit:cancel">>, rendered |-> TRUE]

\* #saveEdit()
SaveOutcome ==
  IF editingCell = NoEdit THEN KeptOutcome
  ELSE IF inputs = {} THEN [KeptOutcome EXCEPT !.editingCell = NoEdit]
  ELSE LET newValue == InputValue(FirstInput(inputs))
           before == [rowId |-> editingCell.rowId, columnId |-> editingCell.columnId,
                      value |-> newValue, oldValue |-> editingCell.originalValue]
       IN IF editingCell.columnId \in editCfg.validators /\ ~Validator(newValue)
          THEN KeptOutcome
          ELSE IF EmitOutcome("edit:before", before).result = False
          THEN [CancelOutcome EXCEPT !.events = <<"edit:before">> \o @]
          ELSE [editingCell |-> NoEdit,
                data |-> IF newValue # editingCell.originalValue
                         THEN UpdateCellValue(data, editingCell.rowId,
                                              editingCell.columnId, newValue)
                         ELSE data,
                rows |-> IF newValue # editingCell.originalValue
                         THEN UpdateCellValue(rows, editingCell.rowId,
                                              editingCell.columnId, newValue)
                         ELSE rows,
                inputs |-> {},
                events |-> <<"edit:before", "edit:end">>,
                rendered |-> TRUE]

\* the edit operations leave the sort, the filters, the selection, the
\* page, the focus, the options and the bus alone
EditFrame ==
  UNCHANGED <<sort, filters, globalFilter, selected, selectionMode, page, pageSize,
              totalRows, focusedCell, editCfg, busVars>>

Apply(o) ==
  /\ editingCell' = o.editingCell
  /\ data' = o.data
  /\ rows' = o.rows
  /\ inputs' = o.inputs
  /\ events' = o.events

\* the Enter key in an edit input, the blur timer of an input, stopEdit()
SaveEdit ==
  /\ Apply(SaveOutcome)
  /\ lastOp' = Op("saveEdit", editingCell.rowId, editingCell.columnId, FALSE)
  /\ EditFrame

\* the Escape key in an edit input, cancelEdit()
CancelEdit ==
  /\ Apply(CancelOutcome)
  /\ lastOp' = Op("cancelEdit", editingCell.rowId, editingCell.columnId, FALSE)
  /\ EditFrame

\* the user changes the value of an edit input
TypeInput(i, v) ==
  /\ i \in inputs
  /\ v \in Typed(i.type)
  /\ inputs' = (inputs \ {i}) \cup {[i EXCEPT !.value = v]}
  /\ events' = <<>>
  /\ lastOp' = Op("type", i.rowId, i.columnId, FALSE)
  /\ UNCHANGED <<editingCell, data, rows>>
  /\ EditFrame

\* #handleEditStart(e): a double click on a rendered cell (a click with
\* options.editOnClick).  After a #saveEdit() that rendered, the cell of the
\* event is no longer in the container and neither is the input put into it.
HandleEditStart(rowId, columnId) ==
  /\ CellRendered(rowId, columnId)
  /\ IF editCfg.editable /\ IsColumnEditable(columnId)
        /\ ~(editingCell.rowId = rowId /\ editingCell.columnId = columnId)
     THEN LET so == IF editingCell # NoEdit THEN SaveOutcome ELSE KeptOutcome
              value == CellValue(so.rows, rowId, columnId)
          IN /\ editingCell' = [rowId |-> rowId, columnId |-> columnId,
                                originalValue |-> value]
             /\ data' = so.data
             /\ rows' = so.rows
             /\ inputs' = IF so.rendered THEN {}
                          ELSE RenderEditCell(so.inputs, rowId, columnId, value)
             /\ events' = so.events \o <<"edit:start">>
     ELSE /\ events' = <<>>
          /\ UNCHANGED <<editingCell, data, rows, inputs>>
  /\ lastOp' = Op("handleEditStart", rowId, columnId, FALSE)
  /\ EditFrame

\* startEdit(rowId, columnId) without the options.editable test
StartEditUngated(rowId, columnId) ==
  /\ IF ColumnFound(columnId) /\ IsColumnEditable(columnId) /\ CellRendered(rowId, columnId)
     THEN /\ editingCell' = [rowId |-> rowId, columnId |-> columnId,
                             originalValue |-> CellValue(rows, rowId, columnId)]
          /\ inputs' = RenderEditCell(inputs, rowId, columnId,
                                      CellValue(rows, rowId, columnId))
     ELSE UNCHANGED <<editingCell, inputs>>
  /\ events' = <<>>
  /\ lastOp' = Op("startEdit", rowId, columnId, FALSE)
  /\ UNCHANGED <<data, rows>>
  /\ EditFrame

\* startEdit(rowId, columnId)
StartEdit(rowId, columnId) ==
  /\ IF editCfg.editable /\ ColumnFound(columnId) /\ IsColumnEditable(columnId)
        /\ CellRendered(rowId, columnId)
     THEN /\ editingCell' = [rowId |-> rowId, columnId |-> columnId,
                             originalValue |-> CellValue(rows, rowId, columnId)]
          /\ inputs' = RenderEditCell(inputs, rowId, columnId,
                                      CellValue(rows, rowId, columnId))
     ELSE UNCHANGED <<editingCell, inputs>>
  /\ events' = <<>>
  /\ lastOp' = Op("startEdit", rowId, columnId, FALSE)
  /\ UNCHANGED <<data, rows>>
  /\ EditFrame

\* #handleCellFocus(e): a click on a rendered cell
HandleCellFocus(rowId, columnId) ==
  /\ CellRendered(rowId, columnId)
  /\ focusedCell' = [rowId |-> rowId, columnId |-> columnId]
  /\ events' = <<>>
  /\ lastOp' = Op("focus", rowId, columnId, FALSE)
  /\ UNCHANGED <<tableVars, busVars, editingCell, inputs, editCfg>>

\* #handleKeyboardNav: the direction a key moves the focus in
KeyDirection ==
  [ArrowUp |-> "up", ArrowDown |-> "down", ArrowLeft |-> "left", ArrowRight |-> "right",
   Home |-> "rowStart", End |-> "rowEnd", CtrlHome |-> "first", CtrlEnd |-> "last",
   Tab |-> "right", ShiftTab |-> "left"]

NavKeys == DOMAIN KeyDirection

\* #moveFocus(direction): the cell that gets the focus, with the 0-based
\* indexes of the code
MoveTarget(direction) ==
  LET vis == VisibleRows
      nCols == Len(Columns)
      found == focusedCell # NoFocus /\ focusedCell.rowId \in Ids(vis)
      row0 == IF found THEN RowIndex(vis, focusedCell.rowId) - 1 ELSE 0
      col0 == IF found THEN ColIndex(focusedCell.columnId) - 1 ELSE 0
      rowIndex ==
        CASE direction = "up" -> Max(0, row0 - 1)
          [] direction = "down" -> Min(Len(vis) - 1, row0 + 1)
          [] direction = "left" -> IF col0 - 1 < 0 THEN Max(0, row0 - 1) ELSE row0
          [] direction = "right" ->
               IF col0 + 1 >= nCols THEN Min(Len(vis) - 1, row0 + 1) ELSE row0
          [] direction = "first" -> 0
          [] direction = "last" -> Len(vis) - 1
          [] OTHER -> row0
      colIndex ==
        CASE direction = "left" -> IF col0 - 1 < 0 THEN nCols - 1 ELSE col0 - 1
          [] direction = "right" -> IF col0 + 1 >= nCols THEN 0 ELSE col0 + 1
          [] direction = "first" -> 0
          [] direction = "last" -> nCols - 1
          [] direction = "rowStart" -> 0
          [] direction = "rowEnd" -> nCols - 1
          [] OTHER -> col0
  IN [rowId |-> GetRowId(vis[rowIndex + 1]), columnId |-> Columns[colIndex + 1]]

\* a navigation key on the container while no cell is edited; Tab is left
\* to the browser when no cell has the focus
KeyNav(key) ==
  /\ editingCell = NoEdit
  /\ key \in {"Tab", "ShiftTab"} => focusedCell # NoFocus
  /\ focusedCell' = IF VisibleRows = <<>> THEN focusedCell
                    ELSE MoveTarget(KeyDirection[key])
  /\ events' = <<>>
  /\ lastOp' = Op("key", key, "-", FALSE)
  /\ UNCHANGED <<tableVars, busVars, editingCell, inputs, editCfg>>

\* the Enter key on the container while no cell is edited
KeyEnter ==
  /\ editingCell = NoEdit
  /\ focusedCell # NoFocus
  /\ editCfg.editable
  /\ StartEdit(focusedCell.rowId, focusedCell.columnId)

\* the rows of a table with editing: column s holds booleans when its type
\* is 'boolean', strings otherwise
EditData(sType) ==
  IF sType = "boolean" THEN << Row(1, Num(1), True), Row(2, Null, False) >>
  ELSE << Row(1, Num(1), Str(<<"a">>)), Row(2, Null, Str(<<"b">>)) >>

\* the editing options and column definitions a host passes: every
\* combination of options.editable, an allowlist ['n'] and an editable flag
\* on column s, and with editable: true alone a validator on column n and
\* type 'boolean' for column s
EditCfgs ==
  {[editable |-> e, hasAllowlist |-> h, editableColumns |-> IF h THEN {"n"} ELSE {},
    columnEditable |-> [c \in ColumnIds |-> IF c = "s" THEN f ELSE "unset"],
    validators |-> {},
    types |-> [c \in ColumnIds |-> IF c = "n" THEN "number" ELSE "text"]] :
     e \in BOOLEAN, h \in BOOLEAN, f \in {"unset", "true", "false"}}
  \cup
  {[DefaultEditCfg EXCEPT !.editable = TRUE, !.validators = v, !.types["s"] = t] :
     v \in {{}, {"n"}}, t \in {"text", "boolean"}}

\* a table with editing options, possibly with an interceptor on
\* edit:before that returns false
InitEdit ==
  /\ editCfg \in EditCfgs
  /\ data = EditData(editCfg.types["s"])
  /\ rows = data
  /\ sort = <<>>
  /\ filters = NoFilters
  /\ globalFilter = <<>>
  /\ selected = {}
  /\ selectionMode = "multi"
  /\ page = 0
  /\ pageSize = 1
  /\ totalRows = Len(data)
  /\ lastOp = Op("init", "-", "-", FALSE)
  /\ listeners = [e \in AllEvents |-> <<>>]
  /\ \E ints \in {<<>>, <<"veto">>} :
       /\ ints # <<>> => editCfg = [DefaultEditCfg EXCEPT !.editable = TRUE]
       /\ interceptors = [e \in AllEvents |-> IF e = "edit:before" THEN ints ELSE <<>>]
       /\ interceptorKeys = IF ints = <<>> THEN {} ELSE {"edit:before"}
  /\ lastEmit = NoEmit
  /\ editingCell = NoEdit
  /\ inputs = {}
  /\ events = <<>>
  /\ focusedCell = NoFocus
  /\ ExtIdle

EditIds == {RowIds[1], RowIds[2]}

NextEdit ==
  \/ \E r \in EditIds, c \in ColumnIds : HandleCellFocus(r, c) /\ UNCHANGED extVars
  \/ KeyEnter /\ UNCHANGED extVars
  \/ \E r \in EditIds, c \in ColumnIds : HandleEditStart(r, c) /\ UNCHANGED extVars
  \/ \E r \in EditIds, c \in ColumnIds \cup {UnknownColumn} :
       StartEdit(r, c) /\ UNCHANGED extVars
  \/ \E i \in inputs : \E v \in Typed(i.type) : TypeInput(i, v) /\ UNCHANGED extVars
  \/ SaveEdit /\ UNCHANGED extVars
  \/ CancelEdit /\ UNCHANGED extVars

SpecEdit == InitEdit /\ [][NextEdit]_vars

\* render() after a table operation: the body is rebuilt without edit inputs;
\* editingCell and focusedCell stay in the state
Rerendered ==
  /\ inputs' = {}
  /\ events' = <<>>
  /\ UNCHANGED <<editingCell, focusedCell, editCfg, busVars>>

\* a table with keyboard navigation, with or without editing
InitFocus ==
  /\ editCfg \in {DefaultEditCfg, [DefaultEditCfg EXCEPT !.editable = TRUE]}
  /\ data \in Datasets
  /\ rows = data
  /\ sort = <<>>
  /\ filters = NoFilters
  /\ globalFilter = <<>>
  /\ selected = {}
  /\ selectionMode = "multi"
  /\ page = 0
  /\ pageSize \in PageSizes
  /\ totalRows = Len(data)
  /\ lastOp = Op("init", "-", "-", FALSE)
  /\ BusIdle
  /\ editingCell = NoEdit
  /\ inputs = {}
  /\ events = <<>>
  /\ focusedCell = NoFocus
  /\ ExtIdle

NextFocus ==
  \/ \E r \in SelectableIds, c \in ColumnIds : HandleCellFocus(r, c) /\ UNCHANGED extVars
  \/ \E key \in NavKeys : KeyNav(key) /\ UNCHANGED extVars
  \/ KeyEnter /\ UNCHANGED extVars
  \/ CancelEdit /\ UNCHANGED extVars
  \/ \E p \in 0..MaxRows : GoToPage(p) /\ Rerendered /\ UNCHANGED extVars

SpecFocus == InitFocus /\ [][NextFocus]_vars

(***************************************************************************)
(* Plugins, render cycle, batch and export (core/PluginSystem.js,          *)
(* core/BWDataTable.js, core/StateManager.js, plugins/export)              *)
(*                                                                         *)
(* done lists, in order, what the last operation did: the init and destroy *)
(* hooks it called, the events it handed to emit(), the state keys it      *)
(* wrote, the slots whose DOM it regenerated and the files it downloaded.  *)
(***************************************************************************)
Did(kind, name, arg) == [kind |-> kind, name |-> name, arg |-> arg]

\* the plugin definitions a host passes to use(): one without a name;
\* plugins a and b with an init function that returns, one that throws or
\* none, with or without a destroy hook, b with or without the dependency
\* 'a'; and ExportPlugin
PluginDefs ==
  {p \in [name : {"", "a", "b"}, init : {"ok", "throws", "none"}, destroy : BOOLEAN,
          dependencies : {{}, {"a"}}] :
     /\ p.dependencies # {} => p.name = "b"
     /\ p.init # "ok" => ~p.destroy
     /\ p.name = "" => p.init = "ok" /\ ~p.destroy}
  \cup {[name |-> "export", init |-> "ok", destroy |-> TRUE, dependencies |-> {}]}

\* #plugins.has(name)
Registered(ps, name) == \E i \in 1..Len(ps) : ps[i].name = name

\* register() that initialises a plugin again when its name is registered
RegisterAgain(plugin, options) ==
  IF plugin.name = "" \/ plugin.init = "none"
     \/ \E dep \in plugin.dependencies : ~Registered(plugins, dep)
  THEN [threw |-> TRUE, plugins |-> plugins, done |-> <<>>]
  ELSE IF plugin.init = "throws"
  THEN [threw |-> TRUE, plugins |-> plugins, done |-> <<Did("init", plugin.name, Null)>>]
  ELSE [threw |-> FALSE,
        plugins |-> Append(SelectSeq(plugins, LAMBDA q : q.name # plugin.name),
                           [name |-> plugin.name, destroy |-> plugin.destroy,
                            options |-> options,
                            dependencies |-> plugin.dependencies]),
        done |-> <<Did("init", plugin.name, Null),
                   Did("emit", "plugin:registered", Null)>>]

\* register() without the dependency loop
RegisterNoDependencies(plugin, options) ==
  IF plugin.name = ""
  THEN [threw |-> TRUE, plugins |-> plugins, done |-> <<>>]
  ELSE IF Registered(plugins, plugin.name)
  THEN [threw |-> FALSE, plugins |-> plugins, done |-> <<Did("warn", plugin.name, Null)>>]
  ELSE IF plugin.init = "none"
  THEN [threw |-> TRUE, plugins |-> plugins, done |-> <<>>]
  ELSE IF plugin.init = "throws"
  THEN [threw |-> TRUE, plugins |-> plugins, done |-> <<Did("init", plugin.name, Null)>>]
  ELSE [threw |-> FALSE,
        plugins |-> Append(plugins, [name |-> plugin.name, destroy |-> plugin.destroy,
                                     options |-> options,
                                     dependencies |-> plugin.dependencies]),
        done |-> <<Did("init", plugin.name, Null),
                   Did("emit", "plugin:registered", Null)>>]

\* PluginSystem.register(plugin, options): whether it throws, the registry
\* and what it did.  The instance of a plugin is what init returned for the
\* options, so the options stand for it.
Register(plugin, options) ==
  IF plugin.name = ""
  THEN [threw |-> TRUE, plugins |-> plugins, done |-> <<>>]
  ELSE IF Registered(plugins, plugin.name)
  THEN [threw |-> FALSE, plugins |-> plugins, done |-> <<Did("warn", plugin.name, Null)>>]
  ELSE IF plugin.init = "none"
  THEN [threw |-> TRUE, plugins |-> plugins, done |-> <<>>]
  ELSE IF \E dep \in plugin.dependencies : ~Registered(plugins, dep)
  THEN [threw |-> TRUE, plugins |-> plugins, done |-> <<>>]
  ELSE IF plugin.init = "throws"
  THEN [threw |-> TRUE, plugins |-> plugins, done |-> <<Did("init", plugin.name, Null)>>]
  ELSE [threw |-> FALSE,
        plugins |-> Append(plugins, [name |-> plugin.name, destroy |-> plugin.destroy,
                                     options |-> options,
                                     dependencies |-> plugin.dependencies]),
        done |-> <<Did("init", plugin.name, Null),
                   Did("emit", "plugin:registered", Null)>>]

\* use(plugin, options)
Use(plugin, options) ==
  /\ plugins' = Register(plugin, options).plugins
  /\ done' = Register(plugin, options).done
  /\ lastOp' = Op("use", plugin.name, plugin.init, Register(plugin, options).threw)
  /\ UNCHANGED <<tableVars, busVars, editVars, range, histVars, auxVars>>

\* destroyAll() that empties the registry before it calls the destroy hooks
DestroyAllClearFirst(ps) ==
  <<Did("clear", "plugins", Null), Did("emit", "plugin:destroyedAll", Null)>>

\* PluginSystem.destroyAll(): the destroy hooks in Map order, then
\* #plugins.clear(), then the event
DestroyAll(ps) ==
  [i \in 1..Len(SelectSeq(ps, LAMBDA q : q.destroy)) |->
     Did("destroy", SelectSeq(ps, LAMBDA q : q.destroy)[i].name, Null)]
  \o <<Did("clear", "plugins", Null), Did("emit", "plugin:destroyedAll", Null)>>

\* what the listeners cbs of a table event have received once it is emitted
Heard(event, cbs) == [i \in 1..Len(cbs) |-> [event |-> event, cb |-> cbs[i]]]

\* destroy(): the plugins, the bus, the container, then table:destroyed on
\* the bus as clear() left it
Destroy ==
  /\ done' = DestroyAll(plugins) \o <<Did("clear", "bus", Null), Did("dom", "container", Null),
                                      Did("emit", "table:destroyed", Null)>>
  /\ plugins' = <<>>
  /\ listeners' = [e \in AllEvents |-> <<>>]
  /\ interceptors' = [e \in AllEvents |-> <<>>]
  /\ interceptorKeys' = {}
  /\ heard' = heard \o Heard("table:destroyed", listeners'["table:destroyed"])
  /\ lastOp' = Op("destroy", "-", "-", FALSE)
  /\ UNCHANGED <<tableVars, lastEmit, editVars, range, histVars, removers, url, syncTimer,
                 blurTimers, inputFocus>>

\* one pass of render(): the event, and the slot unless an interceptor of
\* the event returned false
RenderPass(event, slot) ==
  <<Did("emit", event, Null)>>
  \o (IF EmitOutcome(event, Undefined).result = False THEN <<>>
      ELSE <<Did("dom", slot, Null)>>)

\* render() that goes on after render:before was cancelled
RenderUncancelled ==
  <<Did("emit", "render:before", Null)>>
  \o RenderPass("render:header", "header") \o RenderPass("render:body", "body")
  \o RenderPass("render:footer", "footer")
  \o <<Did("dom", "overlay", Null), Did("emit", "render:after", Null)>>

\* render(): what it emits and regenerates
RenderOutcome ==
  IF EmitOutcome("render:before", Undefined).result = False
  THEN <<Did("emit", "render:before", Null)>>
  ELSE <<Did("emit", "render:before", Null)>>
       \o RenderPass("render:header", "header") \o RenderPass("render:body", "body")
       \o RenderPass("render:footer", "footer")
       \o <<Did("dom", "overlay", Null), Did("emit", "render:after", Null)>>

\* render()
Render ==
  /\ done' = <<Did("render", "-", Null)>> \o RenderOutcome
  /\ lastOp' = Op("render", "-", "-", FALSE)
  /\ UNCHANGED <<tableVars, busVars, editVars, plugins, range, histVars, auxVars>>

\* the state keys a batch function writes, and the values it writes
Writes == {[key |-> "page", value |-> 1], [key |-> "pageSize", value |-> 1]}

\* setState(updates): the state after the write of one key
SetState(st, w) ==
  IF w.key = "page" THEN [st EXCEPT !.page = w.value] ELSE [st EXCEPT !.pageSize = w.value]

RECURSIVE SetStates(_, _)
SetStates(st, ws) == IF ws = <<>> THEN st ELSE SetStates(SetState(st, Head(ws)), Tail(ws))

\* emit('state:change', {prev, current, changes}): the listener #bindEvents
\* put on the event calls render() when the changes name rows, columns or batch
OnStateChange(changes) ==
  IF \E i \in 1..Len(EmitOutcome("state:change", Undefined).calls) :
       EmitOutcome("state:change", Undefined).calls[i] =
         Call("listener", "render", Undefined)
     /\ changes \cap {"rows", "columns", "batch"} # {}
  THEN <<Did("render", "-", Null)>> \o RenderOutcome ELSE <<>>

\* batch(fn) that notifies after every write of fn as well
BatchNotifyingEach(fn) ==
  LET st == SetStates([page |-> page, pageSize |-> pageSize], fn)
  IN /\ page' = st.page
     /\ pageSize' = st.pageSize
     /\ done' = [i \in 1..2 * Len(fn) |->
                   IF i % 2 = 1
                   THEN Did("write", fn[(i + 1) \div 2].key, Num(fn[(i + 1) \div 2].value))
                   ELSE Did("emit", "state:change", st)]
                \o <<Did("emit", "state:change", st)>> \o OnStateChange({"batch"})
     /\ lastOp' = Op("batch", "-", "-", FALSE)
     /\ UNCHANGED <<data, rows, sort, filters, globalFilter, selected, selectionMode, totalRows,
                    busVars, editVars, plugins, range, histVars, auxVars>>

\* batch(fn), fn a function that makes the silent writes fn[1], fn[2], ...
\* with setState(updates, {silent: true}); the notification carries the
\* state after fn as current
Batch(fn) ==
  LET st == SetStates([page |-> page, pageSize |-> pageSize], fn)
  IN /\ page' = st.page
     /\ pageSize' = st.pageSize
     /\ done' = [i \in 1..Len(fn) |-> Did("write", fn[i].key, Num(fn[i].value))]
                \o <<Did("emit", "state:change", st)>> \o OnStateChange({"batch"})
     /\ lastOp' = Op("batch", "-", "-", FALSE)
     /\ UNCHANGED <<data, rows, sort, filters, globalFilter, selected, selectionMode, totalRows,
                    busVars, editVars, plugins, range, histVars, auxVars>>

\* exportCSV(), exportJSON() of ExportPlugin: lastOp.b is the return value
Export(format) ==
  /\ Registered(plugins, "export")
  /\ LET cancelled == EmitOutcome("export:before", Undefined).result = False
     IN /\ done' = <<Did("emit", "export:before", Null)>>
                   \o (IF cancelled THEN <<>>
                       ELSE <<Did("download", format, Null),
                              Did("emit", "export:after", Null)>>)
        /\ lastOp' = Op("export", format, IF cancelled THEN "false" ELSE "true", FALSE)
  /\ UNCHANGED <<tableVars, busVars, editVars, plugins, range, histVars, auxVars>>

MaxWrites == 2      \* most silent writes of one batch function

\* a table after construction: the listener of #bindEvents on state:change,
\* no plugin
InitPlugins ==
  /\ data = BaseA
  /\ rows = data
  /\ sort = <<>>
  /\ filters = NoFilters
  /\ globalFilter = <<>>
  /\ selected = {}
  /\ selectionMode = "multi"
  /\ page = 0
  /\ pageSize = 2
  /\ totalRows = Len(data)
  /\ lastOp = Op("init", "-", "-", FALSE)
  /\ listeners = [e \in AllEvents |-> IF e = "state:change" THEN <<"render">> ELSE <<>>]
  /\ interceptors = [e \in AllEvents |-> <<>>]
  /\ interceptorKeys = {}
  /\ lastEmit = NoEmit
  /\ EditIdle
  /\ ExtIdle

\* a destroyed table is not used again
NextPlugins ==
  \/ \E plugin \in PluginDefs, options \in {1} :
       lastOp.op # "destroy" /\ Use(plugin, options)
  \/ lastOp.op # "destroy" /\ Destroy
  \/ lastOp.op # "destroy" /\ Render
  \/ \E fn \in UNION {[1..n -> Writes] : n \in 0..MaxWrites} :
       lastOp.op # "destroy" /\ Batch(fn)
  \/ \E format \in {"csv", "json"} : lastOp.op # "destroy" /\ Export(format)
  \/ \E cb \in {"veto"} :
       /\ lastOp.op # "destroy"
       /\ On("export:before", cb)
       /\ done' = <<>>
       /\ UNCHANGED <<tableVars, editVars, plugins, range, histVars, auxVars>>
  \/ \E e \in {"render:before", "render:header", "export:before"} :
       /\ lastOp.op # "destroy"
       /\ Intercept(e, "veto")
       /\ done' = <<>>
       /\ UNCHANGED <<tableVars, editVars, plugins, range, histVars, auxVars>>

SpecPlugins == InitPlugins /\ [][NextPlugins]_vars

(***************************************************************************)
(* The life of a table: construction, unregister(), and the remove         *)
(* functions of intercept() (core/BWDataTable.js, core/PluginSystem.js,    *)
(* core/StateManager.js)                                                   *)
(***************************************************************************)
\* new BWDataTable(selector, options): a new EventBus, a new PluginSystem,
\* the state of #init, the listener of #bindEvents, table:ready on the bus
\* as it is then, and the first render
Construct ==
  /\ data' = BaseA
  /\ rows' = data'
  /\ sort' = <<>>
  /\ filters' = NoFilters
  /\ globalFilter' = <<>>
  /\ selected' = {}
  /\ selectionMode' = "multi"
  /\ page' = 0
  /\ pageSize' = 2
  /\ totalRows' = Len(data')
  /\ listeners' = [e \in AllEvents |-> IF e = "state:change" THEN <<"render">> ELSE <<>>]
  /\ interceptors' = [e \in AllEvents |-> <<>>]
  /\ interceptorKeys' = {}
  /\ lastEmit' = NoEmit
  /\ plugins' = <<>>
  /\ removers' = {}
  /\ heard' = Heard("table:ready", listeners'["table:ready"])
  /\ done' = <<Did("emit", "table:ready", Null), Did("render", "-", Null)>>
  /\ lastOp' = Op("construct", "-", "-", FALSE)
  /\ UNCHANGED <<editVars, range, histVars, url, syncTimer, blurTimers, inputFocus>>

\* PluginSystem.unregister(name)
Unregister(name) ==
  /\ IF ~Registered(plugins, name)
     THEN /\ done' = <<Did("warn", name, Null)>>
          /\ UNCHANGED plugins
     ELSE /\ done' = (IF \E i \in 1..Len(plugins) : plugins[i].name = name /\ plugins[i].destroy
                      THEN <<Did("destroy", name, Null)>> ELSE <<>>)
                     \o <<Did("emit", "plugin:unregistered", Null)>>
          /\ plugins' = SelectSeq(plugins, LAMBDA q : q.name # name)
  /\ lastOp' = Op("unregister", name, "-", FALSE)
  /\ UNCHANGED <<tableVars, busVars, editVars, range, histVars, auxVars>>

\* the function intercept(event, callback) returned:
\* () => this.#interceptors.get(event).delete(callback), which throws a
\* TypeError when the Map has no Set for the event
RemoveInterceptor(event, callback) ==
  /\ <<event, callback>> \in removers
  /\ IF event \in interceptorKeys
     THEN /\ interceptors' = [interceptors EXCEPT ![event] = SetDelete(@, callback)]
          /\ lastOp' = Op("remove", event, callback, FALSE)
     ELSE /\ lastOp' = Op("remove", event, callback, TRUE)
          /\ UNCHANGED interceptors
  /\ done' = <<>>
  /\ UNCHANGED <<tableVars, listeners, interceptorKeys, lastEmit, editVars, plugins, range,
                 histVars, removers, heard, url, syncTimer, blurTimers, inputFocus>>

\* the plugins of the life of a table: a and b with an init function that
\* returns, b with or without the dependency 'a'
LifePlugins == {p \in PluginDefs : p.name \in {"a", "b"} /\ p.init = "ok"}

NextLife ==
  \/ Construct
  \/ Destroy
  \/ \E e \in {"table:ready", "table:destroyed"} :
       /\ On(e, "pass")
       /\ done' = <<>>
       /\ UNCHANGED <<tableVars, editVars, plugins, range, histVars, auxVars>>
  \/ \E plugin \in LifePlugins : Use(plugin, 1)
  \/ \E name \in {"a", "b"} : Unregister(name)
  \/ \E e \in {"render:before", "table:destroyed"} :
       /\ Intercept(e, "veto")
       /\ removers' = removers \cup {<<e, "veto">>}
       /\ done' = <<>>
       /\ UNCHANGED <<tableVars, editVars, plugins, range, histVars, heard, url, syncTimer,
                      blurTimers, inputFocus>>
  \/ \E e \in {"render:before", "table:destroyed"} : RemoveInterceptor(e, "veto")

SpecLife == InitPlugins /\ [][NextLife]_vars

\* a table whose hosts and plugins intercept sort:before and sort
NextSort ==
  \/ \E cb \in SortCallbacks :
       /\ Intercept("sort:before", cb)
       /\ done' = <<>>
       /\ UNCHANGED <<tableVars, editVars, plugins, range, histVars, auxVars>>
  \/ \E c \in ColumnIds, dir \in Dirs :
       /\ Sort(c, dir)
       /\ done' = <<>>
       /\ UNCHANGED <<busVars, editVars, plugins, range, histVars, auxVars>>

SpecSort == InitPlugins /\ [][NextSort]_vars

(***************************************************************************)
(* Virtual viewport: computeRange, as the specification gives it           *)
(***************************************************************************)
MaxScroll == 6      \* largest scroll offset
MaxHeight == 3      \* largest viewport height and row height
MaxView == 4        \* most rows of the view

\* computeRange(scrollTop, viewportHeight, rowHeight, viewLength)
ComputeRange(scrollTop, viewportHeight, rowHeight, viewLength) ==
  LET visibleStart == scrollTop \div rowHeight
      visibleCount == CeilDiv(viewportHeight, rowHeight)
      buffer == visibleCount
  IN [start |-> Max(0, visibleStart - buffer),
      end |-> Min(viewLength, visibleStart + visibleCount + buffer)]

\* a viewport and a view, nothing rendered yet
InitRange ==
  /\ data = <<>>
  /\ rows = <<>>
  /\ sort = <<>>
  /\ filters = NoFilters
  /\ globalFilter = <<>>
  /\ selected = {}
  /\ selectionMode = "multi"
  /\ page = 0
  /\ pageSize = 2
  /\ totalRows = 0
  /\ lastOp = Op("init", "-", "-", FALSE)
  /\ BusIdle
  /\ EditIdle
  /\ plugins = <<>>
  /\ done = <<>>
  /\ undoStack = <<>>
  /\ redoStack = <<>>
  /\ pendingSnapshot = Null
  /\ removers = {}
  /\ heard = <<>>
  /\ url = NoUrl
  /\ syncTimer = "none"
  /\ blurTimers = {}
  /\ inputFocus = NoFocus
  /\ \E vh \in 1..MaxHeight, rh \in 1..MaxHeight, n \in 0..MaxView :
       range = [scrollTop |-> 0, viewportHeight |-> vh, rowHeight |-> rh, viewLength |-> n,
                start |-> 0, end |-> 0]

\* the scroll surface reports the offset scrollTop: the range is computed anew
OnScroll(scrollTop) ==
  /\ range' = [range EXCEPT
                 !.scrollTop = scrollTop,
                 !.start = ComputeRange(scrollTop, range.viewportHeight, range.rowHeight,
                                        range.viewLength).start,
                 !.end = ComputeRange(scrollTop, range.viewportHeight, range.rowHeight,
                                      range.viewLength).end]
  /\ lastOp' = Op("scroll", "-", "-", FALSE)
  /\ UNCHANGED <<tableVars, busVars, editVars, plugins, done, histVars, auxVars>>

NextRange == \E scrollTop \in 0..MaxScroll : OnScroll(scrollTop)

SpecRange == InitRange /\ [][NextRange]_vars

(***************************************************************************)
(* History plugin (plugins/history/src/HistoryPlugin.js)                   *)
(***************************************************************************)
MaxHistory == 2     \* opts.maxHistory of the host

\* createSnapshot(action): deep copies of data and rows, made with
\* JSON.parse(JSON.stringify(...)), which keeps null, finite numbers,
\* strings and booleans, and copies of sort, filters, globalFilter, selected
CreateSnapshot ==
  [data |-> data, rows |-> rows, sort |-> sort, filters |-> filters,
   globalFilter |-> globalFilter, selected |-> selected]

\* pushToUndo(snapshot) without the limit
PushToUndoUnlimited(stack, snapshot) == Append(stack, snapshot)

\* pushToUndo(snapshot): the undo stack after the push
PushToUndo(stack, snapshot) ==
  IF Len(stack) + 1 > MaxHistory THEN Tail(Append(stack, snapshot))
  ELSE Append(stack, snapshot)

\* the listeners that push the state after the edit
TrackEditAfterwards ==
  /\ undoStack' = IF Has(events', "edit:end")
                     /\ InputValue(FirstInput(inputs)) # editingCell.originalValue
                  THEN PushToUndo(undoStack, [CreateSnapshot EXCEPT !.data = data',
                                                                    !.rows = rows'])
                  ELSE undoStack
  /\ redoStack' = IF undoStack' # undoStack THEN <<>> ELSE redoStack
  /\ pendingSnapshot' = Null

\* the listeners of edit:before, edit:end and edit:cancel during an
\* operation that may call #saveEdit(): the snapshot is taken at
\* edit:before, before the cell is written, and pushed at edit:end when
\* value !== oldValue; pendingSnapshot is null again when the operation ends
TrackEdit ==
  /\ undoStack' = IF Has(events', "edit:end")
                     /\ InputValue(FirstInput(inputs)) # editingCell.originalValue
                  THEN PushToUndo(undoStack, CreateSnapshot)
                  ELSE undoStack
  /\ redoStack' = IF Has(events', "edit:end")
                     /\ InputValue(FirstInput(inputs)) # editingCell.originalValue
                  THEN <<>> ELSE redoStack
  /\ pendingSnapshot' = Null

\* restoreSnapshot(snapshot): a silent setState of the six keys, then
\* table.render()
RestoreSnapshot(snapshot) ==
  /\ data' = snapshot.data
  /\ rows' = snapshot.rows
  /\ sort' = snapshot.sort
  /\ filters' = snapshot.filters
  /\ globalFilter' = snapshot.globalFilter
  /\ selected' = snapshot.selected
  /\ Rerendered
  /\ UNCHANGED <<selectionMode, page, pageSize, totalRows, plugins, done, range,
                 pendingSnapshot, auxVars>>

\* undo(): lastOp.b is the return value
Undo ==
  IF undoStack = <<>>
  THEN /\ lastOp' = Op("undo", "-", "false", FALSE)
       /\ UNCHANGED <<tableVars, busVars, editVars, extVars>>
  ELSE /\ redoStack' = Append(redoStack, CreateSnapshot)
       /\ undoStack' = SubSeq(undoStack, 1, Len(undoStack) - 1)
       /\ RestoreSnapshot(undoStack[Len(undoStack)])
       /\ lastOp' = Op("undo", "-", "true", FALSE)

\* redo(): lastOp.b is the return value
Redo ==
  IF redoStack = <<>>
  THEN /\ lastOp' = Op("redo", "-", "false", FALSE)
       /\ UNCHANGED <<tableVars, busVars, editVars, extVars>>
  ELSE /\ undoStack' = Append(undoStack, CreateSnapshot)
       /\ redoStack' = SubSeq(redoStack, 1, Len(redoStack) - 1)
       /\ RestoreSnapshot(redoStack[Len(redoStack)])
       /\ lastOp' = Op("redo", "-", "true", FALSE)

\* an editable table with the History plugin installed, possibly with an
\* interceptor on edit:before that returns false; its cells are edited by
\* double click, Enter, Escape and blur
InitHistory ==
  /\ editCfg = [DefaultEditCfg EXCEPT !.editable = TRUE]
  /\ data = EditData("text")
  /\ rows = data
  /\ sort = <<>>
  /\ filters = NoFilters
  /\ globalFilter = <<>>
  /\ selected = {}
  /\ selectionMode = "multi"
  /\ page = 0
  /\ pageSize = 1
  /\ totalRows = Len(data)
  /\ lastOp = Op("init", "-", "-", FALSE)
  /\ listeners = [e \in AllEvents |-> <<>>]
  /\ \E ints \in {<<>>, <<"veto">>} :
       /\ interceptors = [e \in AllEvents |-> IF e = "edit:before" THEN ints ELSE <<>>]
       /\ interceptorKeys = IF ints = <<>> THEN {} ELSE {"edit:before"}
  /\ lastEmit = NoEmit
  /\ editingCell = NoEdit
  /\ inputs = {}
  /\ events = <<>>
  /\ focusedCell = NoFocus
  /\ ExtIdle

NextHistory ==
  \/ \E r \in EditIds, c \in ColumnIds :
       HandleEditStart(r, c) /\ TrackEdit /\ UNCHANGED <<plugins, done, range, auxVars>>
  \/ \E i \in inputs : \E v \in Typed(i.type) : TypeInput(i, v) /\ UNCHANGED extVars
  \/ SaveEdit /\ TrackEdit /\ UNCHANGED <<plugins, done, range, auxVars>>
  \/ CancelEdit /\ TrackEdit /\ UNCHANGED <<plugins, done, range, auxVars>>
  \/ Undo
  \/ Redo

SpecHistory == InitHistory /\ [][NextHistory]_vars

\* the table operations on a table with the History plugin (trackSort and
\* trackFilter are off by default): each one renders, none is recorded
NextPaged ==
  \/ HandleEditStart("r1", "s") /\ TrackEdit /\ UNCHANGED <<plugins, done, range, auxVars>>
  \/ \E i \in inputs : \E v \in Typed(i.type) : TypeInput(i, v) /\ UNCHANGED extVars
  \/ SaveEdit /\ TrackEdit /\ UNCHANGED <<plugins, done, range, auxVars>>
  \/ Sort("n", "asc") /\ Rerendered /\ UNCHANGED extVars
  \/ \E v \in Terms("s") : Filter("s", v) /\ Rerendered /\ UNCHANGED extVars
  \/ SetData(EditData("text")) /\ Rerendered /\ UNCHANGED extVars
  \/ Reset /\ Rerendered /\ UNCHANGED extVars
  \/ \E p \in 0..MaxRows : GoToPage(p) /\ Rerendered /\ UNCHANGED extVars
  \/ \E size \in PageSizes : SetPageSize(size) /\ Rerendered /\ UNCHANGED extVars
  \/ Undo
  \/ Redo

SpecPaged == InitHistory /\ [][NextPaged]_vars

(***************************************************************************)
(* The blur timers of the edit inputs (core/BWDataTable.js, #renderEditCell) *)
(*                                                                         *)
(* inputFocus is the cell of the edit input that has the focus, blurTimers *)
(* the cells of the inputs whose blur handler has a save pending.  An      *)
(* input is identified by its cell.  An input that is taken out of the     *)
(* document while it has the focus loses it; whether the browser then      *)
(* dispatches blur depends on the browser, so both outcomes are taken.     *)
(***************************************************************************)
HasInput(ins, cell) ==
  \E i \in ins : i.rowId = cell.rowId /\ i.columnId = cell.columnId

\* input.focus() on the input of cell target after the operation (NoFocus:
\* no call), and the blur listener of the input that had the focus
Focus(target, fired) ==
  LET gone == inputFocus # NoFocus
                /\ (~HasInput(inputs', inputFocus) \/ target = inputFocus)
      taken == inputFocus # NoFocus /\ ~gone /\ target # NoFocus
                 /\ HasInput(inputs', target)
  IN /\ inputFocus' = IF target # NoFocus /\ HasInput(inputs', target) THEN target
                      ELSE IF gone THEN NoFocus
                      ELSE inputFocus
     /\ blurTimers' = IF taken \/ (gone /\ fired) THEN blurTimers \cup {inputFocus}
                      ELSE blurTimers

\* the user moves the focus out of the focused edit input
BlurInput ==
  /\ inputFocus # NoFocus
  /\ blurTimers' = blurTimers \cup {inputFocus}
  /\ inputFocus' = NoFocus
  /\ events' = <<>>
  /\ lastOp' = Op("blur", inputFocus.rowId, inputFocus.columnId, FALSE)
  /\ UNCHANGED <<editingCell, data, rows, inputs>>
  /\ EditFrame

\* the timer callback of the blur listener of the input of cell
BlurTimerFires(cell) ==
  /\ cell \in blurTimers
  /\ blurTimers' = blurTimers \ {cell}
  /\ IF editingCell # NoEdit /\ inputFocus = NoFocus
     THEN Apply(SaveOutcome)
     ELSE Apply(KeptOutcome)
  /\ lastOp' = Op("blurTimer", cell.rowId, cell.columnId, FALSE)
  /\ UNCHANGED inputFocus
  /\ EditFrame

NextBlur ==
  \/ \E r \in EditIds, c \in ColumnIds, fired \in BOOLEAN :
       /\ StartEdit(r, c)
       /\ Focus(IF CellRendered(r, c) THEN [rowId |-> r, columnId |-> c] ELSE NoFocus,
                fired)
       /\ UNCHANGED <<plugins, done, range, histVars, removers, heard, url, syncTimer>>
  \/ \E r \in EditIds, c \in ColumnIds, fired \in BOOLEAN :
       /\ HandleEditStart(r, c)
       /\ Focus(IF editingCell.rowId = r /\ editingCell.columnId = c THEN NoFocus
                ELSE [rowId |-> r, columnId |-> c],
                fired)
       /\ UNCHANGED <<plugins, done, range, histVars, removers, heard, url, syncTimer>>
  \/ \E i \in inputs : \E v \in Typed(i.type) :
       /\ inputFocus = [rowId |-> i.rowId, columnId |-> i.columnId]
       /\ TypeInput(i, v)
       /\ UNCHANGED extVars
  \/ \E fired \in BOOLEAN :
       /\ inputFocus # NoFocus
       /\ SaveEdit
       /\ Focus(NoFocus, fired)
       /\ UNCHANGED <<plugins, done, range, histVars, removers, heard, url, syncTimer>>
  \/ BlurInput
       /\ UNCHANGED <<plugins, done, range, histVars, removers, heard, url, syncTimer>>
  \/ \E cell \in blurTimers :
       /\ BlurTimerFires(cell)
       /\ UNCHANGED <<plugins, done, range, histVars, removers, heard, url, syncTimer>>

SpecBlur == InitHistory /\ [][NextBlur]_vars

(***************************************************************************)
(* UrlState plugin (plugins/url-state, UrlStatePlugin.js)                  *)
(*                                                                         *)
(* url holds the table parameters of the address: page (1-indexed, 0 when  *)
(* absent), sort (the column and the direction around the colon, <<>> when *)
(* absent) and search.  A timer callback runs between two operations, never *)
(* within one, so isUpdating is false again whenever the debounce timer    *)
(* fires.                                                                  *)
(***************************************************************************)
\* the addresses a link or a history entry can carry
Urls ==
  [page : 0..Len(BaseA),
   sort : {<<>>} \cup {<<c, dir>> : c \in ColumnIds, dir \in {"asc", "desc"}},
   search : Terms("global")]

\* syncToUrl(), getUrlState(): the parameters derived from the state
UrlState ==
  [page |-> IF page > 0 THEN page + 1 ELSE 0,
   sort |-> IF sort # <<>> THEN <<sort[1].column, sort[1].dir>> ELSE <<>>,
   search |-> globalFilter]

\* syncFromUrl(): table.goToPage(), table.sort() and table.filter('global')
\* in this order, each under its test; events lists the events among
\* sort:after, filter:after and render:after that the calls emitted
SyncFromUrlOutcome(params) ==
  LET target == params.page - 1
      clamped == Max(0, Min(target, CeilDiv(totalRows, pageSize) - 1))
      paged == params.page # 0 /\ target >= 0 /\ target # page /\ clamped # page
      st1 == [page |-> IF paged THEN clamped ELSE page, sort |-> sort, rows |-> rows,
              globalFilter |-> globalFilter, totalRows |-> totalRows,
              events |-> IF paged THEN <<"render:after">> ELSE <<>>,
              hasChanges |-> params.page # 0 /\ target >= 0 /\ target # page]
      sorted == params.sort # <<>> /\ params.sort[2] \in {"asc", "desc"}
      st2 == IF sorted
             THEN [st1 EXCEPT !.sort = <<[column |-> params.sort[1], dir |-> params.sort[2]]>>,
                              !.rows = SortRows(data, params.sort[1], params.sort[2]),
                              !.page = 0,
                              !.events = @ \o <<"render:after", "sort:after">>,
                              !.hasChanges = TRUE]
             ELSE st1
      searched == params.search # <<>> /\ params.search # globalFilter
      kept == FilterRows(data, params.search, filters)
      st3 == IF searched
             THEN [st2 EXCEPT !.globalFilter = params.search,
                              !.rows = IF st2.sort # <<>>
                                       THEN SortRows(kept, st2.sort[1].column, st2.sort[1].dir)
                                       ELSE kept,
                              !.page = 0,
                              !.totalRows = Len(kept),
                              !.events = @ \o <<"render:after", "filter:after">>,
                              !.hasChanges = TRUE]
             ELSE st2
  IN st3

\* the page is opened with, or the browser goes back or forward to, the
\* address params: syncFromUrl() from init() or from the popstate handler.
\* The listeners of sort:after, filter:after and render:after call
\* debouncedSync(), which restarts the timer.
SyncFromUrl(params) ==
  LET st == SyncFromUrlOutcome(params)
  IN /\ url' = params
     /\ page' = st.page
     /\ sort' = st.sort
     /\ rows' = st.rows
     /\ globalFilter' = st.globalFilter
     /\ totalRows' = st.totalRows
     /\ syncTimer' = IF st.events # <<>> THEN "restore" ELSE syncTimer
     /\ done' = [i \in 1..Len(st.events) |-> Did("emit", st.events[i], Null)]
                \o (IF st.hasChanges THEN <<Did("emit", "urlstate:restore", Null)>> ELSE <<>>)
     /\ lastOp' = Op("syncFromUrl", "-", "-", FALSE)
     /\ UNCHANGED <<data, filters, selected, selectionMode, pageSize, busVars, editVars,
                    plugins, range, histVars, removers, heard, blurTimers, inputFocus>>

\* the debounce timer fires: syncToUrl() with isUpdating false writes the
\* address with pushState and emits urlstate:change; lastOp.a names what
\* scheduled the timer
SyncTimerFires ==
  /\ syncTimer # "none"
  /\ syncTimer' = "none"
  /\ url' = UrlState
  /\ done' = <<Did("pushState", "-", Null), Did("emit", "urlstate:change", Null)>>
  /\ lastOp' = Op("syncTimer", syncTimer, "-", FALSE)
  /\ UNCHANGED <<tableVars, busVars, editVars, plugins, range, histVars, removers, heard,
                 blurTimers, inputFocus>>

\* the host or the user sorts, searches or pages: the table operation, then
\* the listeners of the plugin restart the debounce timer
ThenDebouncedSync ==
  /\ syncTimer' = IF lastOp'.threw THEN syncTimer ELSE "user"
  /\ done' = <<>>
  /\ UNCHANGED <<url, busVars, editVars, plugins, range, histVars, removers, heard,
                 blurTimers, inputFocus>>

\* a table of pageSize 1 with the UrlState plugin installed under an address
\* without table parameters
InitUrl ==
  /\ data = BaseA
  /\ rows = data
  /\ sort = <<>>
  /\ filters = NoFilters
  /\ globalFilter = <<>>
  /\ selected = {}
  /\ selectionMode = "multi"
  /\ page = 0
  /\ pageSize = 1
  /\ totalRows = Len(data)
  /\ lastOp = Op("init", "-", "-", FALSE)
  /\ BusIdle
  /\ EditIdle
  /\ ExtIdle

NextUrl ==
  \/ \E params \in Urls : SyncFromUrl(params)
  \/ SyncTimerFires
  \/ \E c \in ColumnIds, dir \in {"asc", "desc"} : Sort(c, dir) /\ ThenDebouncedSync
  \/ \E v \in Terms("global") : Filter("global", v) /\ ThenDebouncedSync
  \/ \E p \in 0..Len(BaseA) - 1 : GoToPage(p) /\ ThenDebouncedSync

SpecUrl == InitUrl /\ [][NextUrl]_vars

(***************************************************************************)
(* Properties                                                              *)
(***************************************************************************)
Range(s) == {s[i] : i \in 1..Len(s)}

Reverse(s) == [i \in 1..Len(s) |-> s[Len(s) + 1 - i]]

SortColumn == sort[1].column

\* the rows of a view whose value in the column is not null/undefined
NonNullRows(s, columnId) == SelectSeq(s, LAMBDA row : ~IsNullish(GetCellValue(row, columnId)))

ValuesOf(s, columnId) == [i \in 1..Len(s) |-> GetCellValue(s[i], columnId)]

\* a row matches the filter state: the global term, if set, is contained in
\* some column's lowercased text, and so is every filter set on a column
RowMatches(row) ==
  /\ globalFilter # <<>> =>
       \E c \in ColumnIds :
          Includes(ToLowerCase(String(GetCellValue(row, c))), ToLowerCase(globalFilter))
  /\ \A c \in ColumnIds :
       filters[c] # <<>> =>
          Includes(ToLowerCase(String(GetCellValue(row, c))), ToLowerCase(filters[c]))

Completed(ops) == lastOp.op \in ops /\ ~lastOp.threw

\* C1: a row of the data is in the view if and only if it matches the global
\* term (when set) and every active column filter.
C1_ViewIffMatches ==
  \A i \in 1..Len(data) : (data[i] \in Range(rows)) <=> RowMatches(data[i])

\* C2: after every completed sort, filter, setData or reset the total
\* (state.totalRows) is the number of rows in the view.
C2_TotalIsViewLength ==
  Completed({"sort", "filter", "setData", "reset"}) => totalRows = Len(rows)

\* C3: every row of the view is a row of the data, no row is in the view
\* twice, and the view is not longer than the data.
C3_ViewWithinData ==
  /\ \A i \in 1..Len(rows) : rows[i] \in Range(data)
  /\ \A i, j \in 1..Len(rows) : i # j => GetRowId(rows[i]) # GetRowId(rows[j])
  /\ Len(rows) <= Len(data)

C3_Witness ==
  /\ Completed({"filter"})
  /\ sort # <<>>
  /\ Len(rows) > 0
  /\ Len(rows) < Len(data)

\* C4: after a sort by column c, and after a filter applied while that sort is
\* active, every row with a null/undefined value in c comes after every row
\* with a non-null value in c, in both directions.
C4_NullsLast ==
  (Completed({"sort", "filter"}) /\ sort # <<>> /\ ColumnFound(SortColumn)) =>
     \A i, j \in 1..Len(rows) :
        (IsNullish(GetCellValue(rows[i], SortColumn))
           /\ ~IsNullish(GetCellValue(rows[j], SortColumn))) => j < i

C4_Witness ==
  /\ Completed({"sort"})
  /\ sort # <<>>
  /\ sort[1].dir = "desc"
  /\ ColumnFound(SortColumn)
  /\ Len(data) >= 2
  /\ IsNullish(GetCellValue(data[1], SortColumn))
  /\ ~IsNullish(GetCellValue(data[2], SortColumn))
  /\ rows[1] = data[2]

\* the sort spec an omitted direction leads to
CycleNext(curSort, c) ==
  IF curSort = <<>> \/ curSort[1].column # c THEN <<[column |-> c, dir |-> "asc"]>>
  ELSE IF curSort[1].dir = "asc" THEN <<[column |-> c, dir |-> "desc"]>>
  ELSE <<>>

ToggleStep == lastOp'.op = "sort" /\ lastOp'.b = "none" /\ ColumnFound(lastOp'.a)

AscThenDesc ==
  /\ Completed({"sort"})
  /\ sort # <<>> /\ sort[1].dir = "asc" /\ ColumnFound(SortColumn)
  /\ lastOp'.op = "sort" /\ ~lastOp'.threw
  /\ sort' # <<>> /\ sort'[1].dir = "desc" /\ sort'[1].column = SortColumn

\* C6 as stated: the non-null rows after sort(c, 'desc') are the non-null rows
\* after sort(c, 'asc') in reverse order.
C6_RowsReversed ==
  [][AscThenDesc =>
       NonNullRows(rows', SortColumn) = Reverse(NonNullRows(rows, SortColumn))]_vars

\* C6 amended: the column-c values of the non-null rows after sort(c, 'desc')
\* are those after sort(c, 'asc') in reverse order, and rows with equal values
\* in c keep their data order in both directions.
C6_ValuesReversedTiesKept ==
  [][AscThenDesc =>
       LET asc == NonNullRows(rows, SortColumn)
           desc == NonNullRows(rows', SortColumn)
           Pos(s, r) == CHOOSE i \in 1..Len(s) : s[i] = r
       IN /\ ValuesOf(desc, SortColumn) = Reverse(ValuesOf(asc, SortColumn))
          /\ \A x, y \in Range(asc) :
                (GetCellValue(x, SortColumn) = GetCellValue(y, SortColumn)
                   /\ Pos(data, x) < Pos(data, y)) =>
                (Pos(asc, x) < Pos(asc, y) /\ Pos(desc, x) < Pos(desc, y))]_vars

C6_Witness ==
  /\ sort # <<>>
  /\ lastOp = Op("sort", SortColumn, "none", FALSE)
  /\ sort # <<>>
  /\ sort[1].dir = "desc"
  /\ Len(NonNullRows(rows, SortColumn)) >= 2
  /\ \E i, j \in 1..Len(rows) :
        JsLess(GetCellValue(rows[j], SortColumn), GetCellValue(rows[i], SortColumn)) /\ i < j

\* C7: sort(columnId, dir) with a columnId that matches no column does not
\* throw and leaves the view in data order.
C7_UnknownColumnNoThrow ==
  (lastOp.op = "sort" /\ ~ColumnFound(lastOp.a)) => (~lastOp.threw /\ rows = data)

\* C8: setData leaves the new rows as the view in their given order, an empty
\* selection, no sort, no column filter, no global term, page 0 and a total
\* equal to the number of new rows.
C8_SetDataResets ==
  [][lastOp'.op = "setData" =>
       /\ rows' = data'
       /\ selected' = {}
       /\ sort' = <<>>
       /\ \A c \in DOMAIN filters' : filters'[c] = <<>>
       /\ globalFilter' = <<>>
       /\ page' = 0
       /\ totalRows' = Len(data')]_vars

C8_Witness ==
  /\ lastOp.op = "setData"
  /\ Len(data) >= 2
  /\ rows = data
  /\ totalRows = Len(data)

\* C9: with selectionMode 'single' the selected set holds at most one id.
C9_SingleAtMostOne == selectionMode = "single" => Cardinality(selected) <= 1

\* C10: sort and filter leave the selected id set as it was.
C10_SelectionKept ==
  [][lastOp'.op \in {"sort", "filter"} => selected' = selected]_vars

C10_Witness ==
  /\ Completed({"sort"})
  /\ \E i, j \in 1..Len(data) :
        /\ i # j
        /\ i <= Len(rows)
        /\ rows[i] = data[j]
        /\ GetRowId(data[j]) \in selected

(***************************************************************************)
(* EventBus properties                                                     *)
(***************************************************************************)
AfterEmit == lastOp.op = "emit"

InterceptorCalls == SelectSeq(lastEmit.calls, LAMBDA c : c.kind = "interceptor")

ListenerCalls == SelectSeq(lastEmit.calls, LAMBDA c : c.kind = "listener")

\* the call is an interceptor that returned false
ReturnedFalse(c) == c.kind = "interceptor" /\ Returns(c.cb, c.data) = False

\* the call is an interceptor that returned a replacement for the data
Replaced(c) ==
  c.kind = "interceptor" /\ Returns(c.cb, c.data) # False /\ Returns(c.cb, c.data) # Undefined

Cancelled == \E i \in 1..Len(lastEmit.calls) : ReturnedFalse(lastEmit.calls[i])

\* C17: for every emit, the interceptors of the event are called in
\* registration order before any listener; when one of them returns false it
\* is the last call of the emit (no later interceptor, no listener) and emit
\* returns false; when none does, every interceptor is called.
C17_InterceptorsFirstFalseCancels ==
  AfterEmit =>
    LET calls == lastEmit.calls
        ints == interceptors[lastEmit.event]
        k == Len(InterceptorCalls)
    IN /\ k <= Len(ints)
       /\ \A i \in 1..k : calls[i].kind = "interceptor" /\ calls[i].cb = ints[i]
       /\ \A i \in (k + 1)..Len(calls) : calls[i].kind = "listener"
       /\ \A i \in 1..Len(calls) :
            ReturnedFalse(calls[i]) => i = Len(calls) /\ lastEmit.result = False
       /\ ~Cancelled => k = Len(ints)

\* an emit where the second interceptor returned false while a listener of
\* the event was subscribed
C17_Witness ==
  /\ AfterEmit
  /\ Len(InterceptorCalls) = 2
  /\ ReturnedFalse(lastEmit.calls[2])
  /\ listeners[lastEmit.event] # <<>>

\* C18 as stated: a value other than undefined or false returned by an
\* interceptor is the data of every later call of the emit and is what emit
\* returns; after an interceptor returned undefined the next call gets the
\* same data.
C18_ReplacementSeenByAllLater ==
  AfterEmit =>
    LET calls == lastEmit.calls
    IN \A i \in 1..Len(calls) :
         /\ Replaced(calls[i]) =>
              /\ \A j \in (i + 1)..Len(calls) : calls[j].data = Returns(calls[i].cb, calls[i].data)
              /\ lastEmit.result = Returns(calls[i].cb, calls[i].data)
         /\ (calls[i].kind = "interceptor" /\ Returns(calls[i].cb, calls[i].data) = Undefined
             /\ i < Len(calls)) => calls[i + 1].data = calls[i].data

\* the data after the first i calls of the last emit
DataAfter(i) ==
  IF i = 0 THEN lastEmit.data
  ELSE IF Replaced(lastEmit.calls[i])
       THEN Returns(lastEmit.calls[i].cb, lastEmit.calls[i].data)
       ELSE lastEmit.calls[i].data

\* C18 amended: every call of an emit gets the value the latest replacing
\* interceptor before it returned (the emitted data when there is none), an
\* interceptor returning undefined leaves the data as it is, and an emit that
\* is not cancelled returns the data after its last interceptor.
C18_LatestReplacementSeen ==
  AfterEmit =>
    /\ \A i \in 1..Len(lastEmit.calls) : lastEmit.calls[i].data = DataAfter(i - 1)
    /\ ~Cancelled => lastEmit.result = DataAfter(Len(lastEmit.calls))

\* an emit where two interceptors replaced the data by different values and
\* a listener was called
C18_Witness ==
  /\ AfterEmit
  /\ \E i, j \in 1..Len(lastEmit.calls) :
       /\ i < j
       /\ Replaced(lastEmit.calls[i])
       /\ Replaced(lastEmit.calls[j])
       /\ DataAfter(i) # DataAfter(j)
  /\ ListenerCalls # <<>>

\* C19: an emit that is not cancelled calls every callback subscribed to the
\* event exactly once, in subscription order, each with the data emit
\* returns, after the interceptors and within the emit.
C19_ListenersOnceInOrder ==
  (AfterEmit /\ ~Cancelled) =>
    LET ls == listeners[lastEmit.event]
    IN /\ \A i, j \in 1..Len(ls) : i # j => ls[i] # ls[j]
       /\ ListenerCalls = [i \in 1..Len(ls) |-> Call("listener", ls[i], lastEmit.result)]
       /\ lastEmit.calls = InterceptorCalls \o ListenerCalls

\* an emit that called two listeners with data an interceptor had replaced
C19_Witness ==
  /\ AfterEmit
  /\ ~Cancelled
  /\ Len(ListenerCalls) = 2
  /\ lastEmit.result # lastEmit.data

\* the callbacks on the bus, as <<kind, event, callback>>
OnBus(ls, ints) ==
  UNION {{<<"listener", e, ls[e][i]>> : i \in 1..Len(ls[e])} : e \in AllEvents}
  \cup UNION {{<<"interceptor", e, ints[e][i]>> : i \in 1..Len(ints[e])} : e \in AllEvents}

\* C20: off(event, cb) or the unsubscribe function leaves cb off the
\* listeners of the event, clear() leaves no listener and no interceptor,
\* only on() and intercept() put a callback on the bus, and an emit calls
\* none but the callbacks that are on the bus for its event: so a removed
\* callback is called by no later emit until it is registered again.
C20_RemovedNeverInvoked ==
  [][/\ lastOp'.op = "off" => ~Has(listeners'[lastOp'.a], lastOp'.b)
     /\ lastOp'.op = "clear" => OnBus(listeners', interceptors') = {}
     /\ lastOp'.op \notin {"on", "intercept"} =>
          OnBus(listeners', interceptors') \subseteq OnBus(listeners, interceptors)
     /\ lastOp'.op = "emit" =>
          \A i \in 1..Len(lastEmit'.calls) :
             <<lastEmit'.calls[i].kind, lastEmit'.event, lastEmit'.calls[i].cb>>
               \in OnBus(listeners, interceptors)]_vars

\* off() has removed a callback that the emit before it had called, and
\* another listener of the event stays subscribed
C20_Witness ==
  /\ lastOp.op = "off"
  /\ lastEmit.event = lastOp.a
  /\ \E i \in 1..Len(lastEmit.calls) :
       lastEmit.calls[i].kind = "listener" /\ lastEmit.calls[i].cb = lastOp.b
  /\ ~Has(listeners[lastOp.a], lastOp.b)
  /\ listeners[lastOp.a] # <<>>

(***************************************************************************)
(* Inline editing properties                                               *)
(***************************************************************************)
\* the input element in the cell that is being edited
OwnInputs == {i \in inputs : i.rowId = editingCell.rowId /\ i.columnId = editingCell.columnId}

\* the value an input stands for, by the type of its column: a number or
\* null for a number column, the checkbox state for a boolean column, the
\* raw string otherwise
Coerced(i) ==
  IF editCfg.types[i.columnId] = "number"
  THEN IF i.value = Str(<<>>) THEN Null ELSE ToNumber(i.value.s)
  ELSE i.value

\* the step starts an edit of another cell than the one being edited
StartsOtherEdit ==
  /\ lastOp'.op \in {"handleEditStart", "startEdit"}
  /\ editingCell # NoEdit
  /\ editingCell' # NoEdit
  /\ <<editingCell'.rowId, editingCell'.columnId>> # <<editingCell.rowId, editingCell.columnId>>

\* C11: when an edit of a cell X is active and an edit of another cell Y is
\* started by a click on Y or by startEdit, the pending input of X is in X's
\* cell, in the data and in the view, when Y is in editing.
C11_CommittedBeforeNewEdit ==
  [][StartsOtherEdit =>
       \A i \in OwnInputs :
          /\ CellValue(data', editingCell.rowId, editingCell.columnId) = Coerced(i)
          /\ CellValue(rows', editingCell.rowId, editingCell.columnId) = Coerced(i)]_vars

\* the step is a commit attempt on an active edit with an input in the container
CommitAttempt == lastOp'.op = "saveEdit" /\ editingCell # NoEdit /\ inputs # {}

\* the value the commit reads is one the validator of the models' columns
\* returns false for: null or the empty string
Rejected(v) == v = Null \/ v = Str(<<>>)

C13_CommitWritesCoercedInput ==
  [][\A i \in OwnInputs :
       (/\ CommitAttempt
        /\ editingCell.columnId \in editCfg.validators => ~Rejected(Coerced(i))
        /\ ~Has(interceptors["edit:before"], "veto"))
       => /\ CellValue(data', editingCell.rowId, editingCell.columnId) = Coerced(i)
          /\ CellValue(rows', editingCell.rowId, editingCell.columnId) = Coerced(i)
          /\ editingCell' = NoEdit]_vars

\* C14: cancelling an active edit leaves the data and the view as they are,
\* ends the edit and emits edit:cancel and nothing else; cancelling when no
\* edit is active changes nothing and emits nothing.
C14_CancelLeavesRows ==
  [][lastOp'.op = "cancelEdit" =>
       /\ data' = data
       /\ rows' = rows
       /\ editingCell' = NoEdit
       /\ events' = IF editingCell # NoEdit THEN <<"edit:cancel">> ELSE <<>>
       /\ editingCell = NoEdit => inputs' = inputs
       /\ UNCHANGED <<sort, filters, globalFilter, selected, page, pageSize,
                      totalRows, focusedCell>>]_vars

\* an edit of a cell whose input had been changed has just been cancelled
C14_Witness ==
  /\ lastOp.op = "cancelEdit"
  /\ lastOp.a # "-"
  /\ events = <<"edit:cancel">>
  /\ editingCell = NoEdit

\* editability as the claim resolves it: the flag of the column when set,
\* else membership in the allowlist when there is one, else options.editable
ClaimedEditable(columnId) ==
  IF editCfg.columnEditable[columnId] # "unset"
  THEN editCfg.columnEditable[columnId] = "true"
  ELSE IF editCfg.hasAllowlist THEN columnId \in editCfg.editableColumns
  ELSE editCfg.editable

\* the step is a double click, Enter or startEdit on a rendered cell
EditRequest ==
  /\ lastOp'.op \in {"handleEditStart", "startEdit"}
  /\ CellRendered(lastOp'.a, lastOp'.b)

\* the cell of the request is the one in editing after the step
InEditing ==
  editingCell'.rowId = lastOp'.a /\ editingCell'.columnId = lastOp'.b

\* C15 as stated: a rendered cell is in editing after a click, Enter or
\* startEdit on it exactly when its column is editable as the claim resolves it.
C15_EditingIffColumnEditable ==
  [][EditRequest => (InEditing <=> ClaimedEditable(lastOp'.b))]_vars

\* C15 amended: ... exactly when options.editable is true and the column is
\* editable as the claim resolves it.
C15_EditingIffEnabledAndColumnEditable ==
  [][EditRequest => (InEditing <=> (editCfg.editable /\ ClaimedEditable(lastOp'.b)))]_vars

\* startEdit or a double click on a rendered cell of a column with
\* editable: true has left no cell in editing, options.editable being false
C15_Witness ==
  /\ lastOp.op \in {"handleEditStart", "startEdit"}
  /\ CellRendered(lastOp.a, lastOp.b)
  /\ editCfg.columnEditable[lastOp.b] = "true"
  /\ ~editCfg.editable
  /\ editingCell = NoEdit

(***************************************************************************)
(* Keyboard navigation properties                                          *)
(***************************************************************************)
ArrowKeys == {"ArrowUp", "ArrowDown", "ArrowLeft", "ArrowRight"}

\* the step is an arrow key while a rendered cell has the focus and no cell
\* is edited
ArrowOnFocusedCell ==
  /\ lastOp'.op = "key"
  /\ lastOp'.a \in ArrowKeys
  /\ focusedCell # NoFocus
  /\ focusedCell.rowId \in Ids(VisibleRows)
  /\ editingCell = NoEdit

\* the cell one step from the focused cell in the direction of the key,
\* the focused cell itself at that edge of the grid
ClampedTarget(key) ==
  LET r == RowIndex(VisibleRows, focusedCell.rowId)
      c == ColIndex(focusedCell.columnId)
      tr == CASE key = "ArrowUp" -> Max(1, r - 1)
              [] key = "ArrowDown" -> Min(Len(VisibleRows), r + 1)
              [] OTHER -> r
      tc == CASE key = "ArrowLeft" -> Max(1, c - 1)
              [] key = "ArrowRight" -> Min(Len(Columns), c + 1)
              [] OTHER -> c
  IN [rowId |-> GetRowId(VisibleRows[tr]), columnId |-> Columns[tc]]

\* C16: while a cell is focused and no edit is active, an arrow key moves
\* the focus one cell in its direction and leaves it where it is at that
\* edge of the grid; ArrowLeft and ArrowRight keep the focused row.
C16_ArrowsClamped ==
  [][ArrowOnFocusedCell => focusedCell' = ClampedTarget(lastOp'.a)]_vars

(***************************************************************************)
(* Plugins, render cycle, batch and export                                 *)
(***************************************************************************)
\* the positions of done at which the last operation did a thing of the kind
DoneKind(log, kind) == {i \in 1..Len(log) : log[i].kind = kind}

\* the positions of done at which the last operation did the named thing
DoneAt(log, kind, name) == {i \in DoneKind(log, kind) : log[i].name = name}

\* the names of the events the last operation handed to emit(), in order
Emitted(log) ==
  LET es == SelectSeq(log, LAMBDA e : e.kind = "emit")
  IN [i \in 1..Len(es) |-> es[i].name]

\* C21: batch(fn) hands state:change to emit() exactly once, after every
\* write of fn; the current state of the notification is the state of the
\* table and holds the last value fn wrote to each key; render() is called
\* exactly once, by the notification.
C21_BatchNotifiesOnce ==
  lastOp.op = "batch" =>
    /\ Cardinality(DoneAt(done, "emit", "state:change")) = 1
    /\ Cardinality(DoneKind(done, "render")) = 1
    /\ \A n \in DoneAt(done, "emit", "state:change") :
         /\ \A w \in DoneKind(done, "write") : w < n
         /\ \A r \in DoneKind(done, "render") : n < r
         /\ done[n].arg = [page |-> page, pageSize |-> pageSize]
         /\ \A w \in DoneKind(done, "write") :
              (\A x \in DoneAt(done, "write", done[w].name) : x <= w) =>
                Num(IF done[w].name = "page" THEN done[n].arg.page
                    ELSE done[n].arg.pageSize) = done[w].arg

\* a batch of two writes that changed two keys of the state
C21_Witness ==
  /\ lastOp.op = "batch"
  /\ Cardinality(DoneKind(done, "write")) >= 2
  /\ page = 1
  /\ pageSize = 1

\* C22: render() hands render:before, render:header, render:body,
\* render:footer, render:after to emit() in this order; when an interceptor
\* of render:before returns false it emits render:before alone and
\* regenerates no slot.
C22_RenderCycle ==
  DoneKind(done, "render") # {} =>
    IF Has(interceptors["render:before"], "veto")
    THEN /\ SelectSeq(Emitted(done), LAMBDA e : e \in {RenderEvents[i] : i \in 1..5})
              = <<"render:before">>
         /\ DoneKind(done, "dom") = {}
    ELSE SelectSeq(Emitted(done), LAMBDA e : e \in {RenderEvents[i] : i \in 1..5})
           = RenderEvents

\* a render() that an interceptor of render:before cancelled
C22_Witness ==
  /\ lastOp.op = "render"
  /\ Has(interceptors["render:before"], "veto")
  /\ Emitted(done) = <<"render:before">>

\* C23: use() of a plugin whose init throws does not throw.
C23_InitThrowCaught ==
  (lastOp.op = "use" /\ DoneKind(done, "init") # {} /\ lastOp.b = "throws")
    => ~lastOp.threw

\* the plugin definition has no name, no init function or a dependency that
\* is not registered
Unfit(plugin, ps) ==
  \/ plugin.name = ""
  \/ plugin.init = "none"
  \/ \E dep \in plugin.dependencies : ~Registered(ps, dep)

\* use() threw, called no init and left the registry as it was
Refused ==
  /\ lastOp'.threw
  /\ DoneKind(done', "init") = {}
  /\ plugins' = plugins

\* C24 as stated: use() of a plugin with no name, no init function or an
\* unregistered dependency throws, calls no init and leaves the registry.
C24_UnfitPluginThrows ==
  [][\A plugin \in PluginDefs :
       (Unfit(plugin, plugins) /\ Use(plugin, 1)) => Refused]_vars

\* C24 amended: the same for a plugin with no name, and for a plugin whose
\* name is not registered yet and that has no init function or an
\* unregistered dependency.
C24_UnfitNewPluginThrows ==
  [][\A plugin \in PluginDefs :
       (Unfit(plugin, plugins) /\ ~Registered(plugins, plugin.name)
          /\ Use(plugin, 1)) => Refused]_vars

\* use() of plugin b, which depends on the unregistered plugin a, threw
C24_Witness ==
  /\ lastOp.op = "use"
  /\ lastOp.a = "b"
  /\ lastOp.b = "ok"
  /\ ~Registered(plugins, "a")
  /\ ~Registered(plugins, "b")
  /\ lastOp.threw

\* C25: use() of a plugin whose name is registered calls no init, leaves
\* the registry with its instances as it was, emits no plugin:registered
\* and does not throw.
C25_DuplicateIsNoOp ==
  [][(lastOp'.op = "use" /\ Registered(plugins, lastOp'.a)) =>
       /\ DoneKind(done', "init") = {}
       /\ plugins' = plugins
       /\ DoneAt(done', "emit", "plugin:registered") = {}
       /\ ~lastOp'.threw]_vars

\* a second use() of the registered plugin a
C25_Witness ==
  /\ lastOp.op = "use"
  /\ lastOp.a = "a"
  /\ lastOp.b = "ok"
  /\ DoneAt(done, "warn", "a") # {}
  /\ Registered(plugins, "a")

\* C26: destroy() calls the destroy hook of every registered plugin that
\* has one exactly once and before the registry is emptied, the hook of no
\* other plugin, and leaves no plugin registered.
C26_DestroyAllCallsHooks ==
  [][lastOp'.op = "destroy" =>
       /\ plugins' = <<>>
       /\ Cardinality(DoneAt(done', "clear", "plugins")) = 1
       /\ \A i \in 1..Len(plugins) :
            Cardinality(DoneAt(done', "destroy", plugins[i].name))
              = IF plugins[i].destroy THEN 1 ELSE 0
       /\ \A d \in DoneKind(done', "destroy"), c \in DoneAt(done', "clear", "plugins") :
            d < c /\ Registered(plugins, done'[d].name)]_vars

\* a destroy() of a table with two plugins that have a destroy hook
C26_Witness ==
  /\ lastOp.op = "destroy"
  /\ Cardinality(DoneKind(done, "destroy")) = 2
  /\ plugins = <<>>

\* C30: exportCSV() and exportJSON() return false, download nothing and emit
\* no export:after when a handler that table.on('export:before') registered
\* returns false.
C30_ListenerCancelsExport ==
  (lastOp.op = "export" /\ Has(listeners["export:before"], "veto")) =>
    /\ lastOp.b = "false"
    /\ DoneKind(done, "download") = {}
    /\ DoneAt(done, "emit", "export:after") = {}

(***************************************************************************)
(* Virtual viewport                                                        *)
(***************************************************************************)
\* the positions of the visible band: ceil(viewportHeight / rowHeight)
\* positions from floor(scrollTop / rowHeight) on
VisibleBand ==
  {p \in 0..(MaxScroll + MaxHeight) :
     /\ range.scrollTop \div range.rowHeight <= p
     /\ p < range.scrollTop \div range.rowHeight
              + CeilDiv(range.viewportHeight, range.rowHeight)}

\* C27: the computed range satisfies 0 <= start <= end <= viewLength and
\* holds every position of the view that lies in the visible band.
C27_RangeContainsBand ==
  lastOp.op = "scroll" =>
    /\ 0 <= range.start
    /\ range.start <= range.end
    /\ range.end <= range.viewLength
    /\ \A p \in VisibleBand :
         p < range.viewLength => range.start <= p /\ p < range.end

(***************************************************************************)
(* History plugin                                                          *)
(***************************************************************************)
\* the step committed an edit that changed the cell of the row and column
CommittedChange(rowId, columnId) ==
  /\ Has(events', "edit:end")
  /\ editingCell.rowId = rowId
  /\ editingCell.columnId = columnId
  /\ CellValue(data', rowId, columnId) # CellValue(data, rowId, columnId)

Top(stack) == stack[Len(stack)]

\* C28: a committed edit that changed a cell from X to Y leaves a snapshot
\* on top of the undo stack in which the cell reads X, in data and in rows;
\* undo() with a non-empty undo stack returns true, makes the table read
\* what the top snapshot holds and leaves the state it replaced on top of
\* the redo stack; redo() with a non-empty redo stack returns true and makes
\* the table read what the top of the redo stack holds.  So undo() right
\* after the edit reads X and the redo() that follows reads Y.
C28_UndoRedoRestoreEdit ==
  [][/\ \A r \in EditIds, c \in ColumnIds :
          CommittedChange(r, c) =>
            /\ undoStack' # <<>>
            /\ CellValue(Top(undoStack').data, r, c) = CellValue(data, r, c)
            /\ CellValue(Top(undoStack').rows, r, c) = CellValue(rows, r, c)
     /\ (lastOp'.op = "undo" /\ undoStack # <<>>) =>
          /\ lastOp'.b = "true"
          /\ data' = Top(undoStack).data
          /\ rows' = Top(undoStack).rows
          /\ redoStack' # <<>>
          /\ Top(redoStack').data = data
          /\ Top(redoStack').rows = rows
     /\ (lastOp'.op = "redo" /\ redoStack # <<>>) =>
          /\ lastOp'.b = "true"
          /\ data' = Top(redoStack).data
          /\ rows' = Top(redoStack).rows]_vars

\* the cell r1/n was edited from 1 to 2, undo() made it read 1 and redo()
\* made it read 2 again
C28_Witness ==
  /\ lastOp.op = "redo"
  /\ lastOp.b = "true"
  /\ CellValue(data, "r1", "n") = Num(2)
  /\ CellValue(rows, "r1", "n") = Num(2)
  /\ undoStack # <<>>
  /\ CellValue(Top(undoStack).data, "r1", "n") = Num(1)

\* C29: the undo stack never holds more than maxHistory snapshots, and a
\* tracked edit on a full undo stack drops the oldest snapshot and puts the
\* new one on top.
C29_UndoStackBounded ==
  [][/\ Len(undoStack') <= MaxHistory
     /\ \A r \in EditIds, c \in ColumnIds :
          (CommittedChange(r, c) /\ Len(undoStack) = MaxHistory) =>
            undoStack' = Append(Tail(undoStack), CreateSnapshot)]_vars

\* a full undo stack whose oldest snapshot is no longer the first state of
\* the table
C29_Witness ==
  /\ Len(undoStack) = MaxHistory
  /\ undoStack[1].data # EditData("text")
  /\ Has(events, "edit:end")

(***************************************************************************)
(* UrlState plugin properties                                              *)
(***************************************************************************)

\* the address names a page of the view it describes
UrlViewExists ==
  (url.page - 1) * pageSize < Len(FilterRows(data, url.search, filters))

\* C31: after a restore from an address with page=p, p > 1, and a sort or a
\* search parameter, the table is on page p - 1 with that sort and that
\* search applied.
C31_RestoreShowsUrlView ==
  (/\ lastOp.op = "syncFromUrl"
   /\ url.page > 1
   /\ url.sort # <<>> \/ url.search # <<>>
   /\ UrlViewExists)
  => /\ page = url.page - 1
     /\ UrlState.sort = url.sort
     /\ globalFilter = url.search

\* C34: when the debounce timer that the events of a restore started fires,
\* the plugin neither writes the address nor pushes a history entry.
C34_RestoreWritesNoUrl ==
  (lastOp.op = "syncTimer" /\ lastOp.a = "restore")
  => DoneKind(done, "pushState") = {}

(***************************************************************************)
(* Properties of the life of a table                                       *)
(***************************************************************************)
\* how often the listener cb has received the event from this table
TimesHeard(log, event, cb) ==
  Cardinality({j \in 1..Len(log) : log[j] = [event |-> event, cb |-> cb]})

\* C32: a listener subscribed with table.on('table:ready', cb) is invoked
\* once: when the table is destroyed, every listener of table:ready has
\* received the event exactly once.
C32_ReadyListenerInvokedOnce ==
  [][lastOp'.op = "destroy" =>
       \A i \in 1..Len(listeners["table:ready"]) :
         TimesHeard(heard, "table:ready", listeners["table:ready"][i]) = 1]_vars

\* C38: every dependency declared by a registered plugin is registered.
C38_DependenciesRegistered ==
  \A i \in 1..Len(plugins) :
    \A dep \in plugins[i].dependencies : Registered(plugins, dep)

\* C39: destroy() delivers table:destroyed to every listener that was
\* subscribed to it when destroy() was called.
C39_DestroyedDelivered ==
  [][lastOp'.op = "destroy" =>
       \A i \in 1..Len(listeners["table:destroyed"]) :
         TimesHeard(heard', "table:destroyed", listeners["table:destroyed"][i]) >= 1]_vars

\* C40: the remove function of intercept() never throws, and after it the
\* interceptor is not among the interceptors of the event.
C40_RemoveNeverThrows ==
  lastOp.op = "remove" => /\ ~lastOp.threw
                          /\ ~Has(interceptors[lastOp.a], lastOp.b)

\* the replacement the interceptors of sort:before made of {columnId, dir}:
\* the data the last interceptor that returned a value returned
Replacement(columnId, dir) ==
  RunInterceptors(interceptors["sort:before"], SortData(columnId, dir), <<>>).data

\* C33: when the interceptors of sort:before replace {columnId, dir} and do
\* not cancel, sort() sorts the view by the replacement column and direction
\* and stores them as the sort.
C33_SortAppliesReplacement ==
  [][\A c \in ColumnIds, dir \in {"asc", "desc"} :
       (/\ lastOp'.op = "sort" /\ lastOp'.a = c /\ lastOp'.b = dir
        /\ SortBefore(c, dir) # False
        /\ Replacement(c, dir) # SortData(c, dir))
       => /\ sort' = <<[column |-> Replacement(c, dir).s[1],
                        dir |-> Replacement(c, dir).s[2]]>>
          /\ rows' = SortRows(data, Replacement(c, dir).s[1],
                              Replacement(c, dir).s[2])]_vars

(***************************************************************************)
(* Properties of the end of an edit                                        *)
(***************************************************************************)
\* C36: whenever the editing cell goes from set to empty, the operation
\* emits exactly one edit:end or edit:cancel.
C36_EditEndsWithOneEvent ==
  [][(editingCell # NoEdit /\ editingCell' = NoEdit)
       => Cardinality({i \in 1..Len(events') :
                         events'[i] \in {"edit:end", "edit:cancel"}}) = 1]_vars

\* C35: the timer callback of an input's blur listener commits or ends an
\* edit only if the cell being edited is the cell of that input
C35_BlurSavesOwnEdit ==
  [][(lastOp'.op = "blurTimer" /\ editingCell # NoEdit /\ editingCell' = NoEdit)
       => (editingCell.rowId = lastOp'.a /\ editingCell.columnId = lastOp'.b)]_vars

\* C37: the current page is never past the end of the view: page = 0, or
\* page * pageSize is less than the number of rows of the view
C37_PageWithinView == page = 0 \/ page * pageSize < Len(rows)

====
